---- MODULE Spec2Model ----
(***************************************************************************)
(* A model of cvss-rs: the vector-string parsers of CVSS v2.0, v3.x and    *)
(* v4.0 (FromStr for CvssV2, CvssV3, CvssV4) and the score engines.        *)
(*                                                                         *)
(* Strings are sequences of one-character strings, so that splitting on    *)
(* '/' and ':' and ASCII upper-casing are computed as the code computes    *)
(* them.  An enum variant is the string of its Rust name; an empty         *)
(* Option slot is the value None.                                          *)
(***************************************************************************)
EXTENDS Integers, Sequences, FiniteSets, TLC

VARIABLES
    parser,   \* which FromStr implementation is running: "v2", "v3" or "v4"
    input,    \* the argument s of from_str
    pc,       \* position inside from_str: "start", "loop", "done"
    rest,     \* the components the `for component in ...` loop has not seen yet
    cvss,     \* the record under construction / the constructed record
    result,   \* the value from_str returned (Pending while it runs)
    call,     \* the scoring function called last ("none" before any call)
    ret       \* what that call returned

vars == <<parser, input, pc, rest, cvss, result, call, ret>>

(***************************************************************************)
(* Bounds of the model.                                                    *)
(***************************************************************************)
\* the longest run of metric segments drawn from SegmentPool
MaxSegs == 3

(***************************************************************************)
(* Strings.                                                                *)
(***************************************************************************)
LowerAlpha ==
    <<"a","b","c","d","e","f","g","h","i","j","k","l","m",
      "n","o","p","q","r","s","t","u","v","w","x","y","z">>

UpperAlpha ==
    <<"A","B","C","D","E","F","G","H","I","J","K","L","M",
      "N","O","P","Q","R","S","T","U","V","W","X","Y","Z">>

\* u8::to_ascii_uppercase on one character
to_ascii_uppercase_char(c) ==
    IF \E i \in 1..26 : LowerAlpha[i] = c
    THEN UpperAlpha[CHOOSE i \in 1..26 : LowerAlpha[i] = c]
    ELSE c

\* u8::to_ascii_lowercase on one character
to_ascii_lowercase_char(c) ==
    IF \E i \in 1..26 : UpperAlpha[i] = c
    THEN LowerAlpha[CHOOSE i \in 1..26 : UpperAlpha[i] = c]
    ELSE c

\* str::to_ascii_uppercase
to_ascii_uppercase(s) ==
    IF s = <<>> THEN <<>> ELSE [i \in 1..Len(s) |-> to_ascii_uppercase_char(s[i])]

\* str::to_ascii_lowercase
to_ascii_lowercase(s) ==
    IF s = <<>> THEN <<>> ELSE [i \in 1..Len(s) |-> to_ascii_lowercase_char(s[i])]

\* str::eq_ignore_ascii_case
eq_ignore_ascii_case(a, b) == to_ascii_lowercase(a) = to_ascii_lowercase(b)

\* str::starts_with
starts_with(s, p) == Len(s) >= Len(p) /\ SubSeq(s, 1, Len(p)) = p

\* str::split(sep) collected: always at least one piece, pieces may be empty
RECURSIVE split(_, _)
split(s, sep) ==
    IF \A i \in 1..Len(s) : s[i] # sep
    THEN <<s>>
    ELSE LET i == CHOOSE k \in 1..Len(s) :
                      s[k] = sep /\ \A j \in 1..(k - 1) : s[j] # sep
         IN  <<SubSeq(s, 1, i - 1)>> \o split(SubSeq(s, i + 1, Len(s)), sep)

\* the inverse of split: the pieces joined by sep
RECURSIVE join(_, _)
join(pieces, sep) ==
    IF Len(pieces) = 0 THEN <<>>
    ELSE IF Len(pieces) = 1 THEN pieces[1]
    ELSE pieces[1] \o <<sep>> \o join(Tail(pieces), sep)

(***************************************************************************)
(* f64.  A finite double is (-1)^neg * m * 2^e; the significand m, 53 bits *)
(* wide unless the value is zero, is a natural number written in base 2^15 *)
(* with the least significant limb first.  Every operation rounds its      *)
(* exact result to the nearest double, ties to even, as IEEE 754 does.     *)
(* The two zeros are not told apart (0.0 == -0.0 in Rust); infinities,     *)
(* NaN and subnormals are out of the range of the scores.                  *)
(***************************************************************************)
Radix == 2^15

RECURSIVE BigOfInt(_)
BigOfInt(n) == IF n = 0 THEN <<>> ELSE <<n % Radix>> \o BigOfInt(n \div Radix)

RECURSIVE IntOfBig(_)
IntOfBig(a) == IF a = <<>> THEN 0 ELSE a[1] + Radix * IntOfBig(Tail(a))

RECURSIVE BigTrim(_)
BigTrim(a) ==
    IF a = <<>> THEN <<>>
    ELSE IF a[Len(a)] = 0 THEN BigTrim(SubSeq(a, 1, Len(a) - 1))
    ELSE a

RECURSIVE BigAddC(_, _, _)
BigAddC(a, b, c) ==
    IF a = <<>> /\ b = <<>> THEN (IF c = 0 THEN <<>> ELSE <<c>>)
    ELSE LET x == (IF a = <<>> THEN 0 ELSE a[1]) + (IF b = <<>> THEN 0 ELSE b[1]) + c
         IN  <<x % Radix>> \o BigAddC(IF a = <<>> THEN <<>> ELSE Tail(a),
                                      IF b = <<>> THEN <<>> ELSE Tail(b),
                                      x \div Radix)

BigAdd(a, b) == BigAddC(a, b, 0)

RECURSIVE BigSubB(_, _, _)
BigSubB(a, b, c) ==
    IF a = <<>> THEN <<>>
    ELSE LET x == a[1] - (IF b = <<>> THEN 0 ELSE b[1]) - c
         IN  <<IF x < 0 THEN x + Radix ELSE x>>
             \o BigSubB(Tail(a), IF b = <<>> THEN <<>> ELSE Tail(b),
                        IF x < 0 THEN 1 ELSE 0)

\* a - b, for a >= b
BigSub(a, b) == BigTrim(BigSubB(a, b, 0))

\* -1, 0, 1 as a < b, a = b, a > b
RECURSIVE BigCmp(_, _)
BigCmp(a, b) ==
    IF Len(a) # Len(b) THEN (IF Len(a) < Len(b) THEN -1 ELSE 1)
    ELSE IF a = <<>> THEN 0
    ELSE IF a[Len(a)] # b[Len(b)] THEN (IF a[Len(a)] < b[Len(b)] THEN -1 ELSE 1)
    ELSE BigCmp(SubSeq(a, 1, Len(a) - 1), SubSeq(b, 1, Len(b) - 1))

\* a * d + c for one limb d
RECURSIVE BigMulSmall(_, _, _)
BigMulSmall(a, d, c) ==
    IF a = <<>> THEN (IF c = 0 THEN <<>> ELSE <<c>>)
    ELSE LET x == a[1] * d + c
         IN  <<x % Radix>> \o BigMulSmall(Tail(a), d, x \div Radix)

RECURSIVE BigMul(_, _)
BigMul(a, b) ==
    IF a = <<>> \/ b = <<>> THEN <<>>
    ELSE BigAdd(BigMulSmall(a, b[1], 0),
                IF Tail(b) = <<>> THEN <<>> ELSE <<0>> \o BigMul(a, Tail(b)))

\* a * 2^k
BigShl(a, k) ==
    IF a = <<>> THEN <<>>
    ELSE [i \in 1..(k \div 15) |-> 0] \o BigMulSmall(a, 2^(k % 15), 0)

\* the limbs i..1 of (rem * Radix^i + a) \div d, for one limb d
RECURSIVE BigDivSmall(_, _, _, _)
BigDivSmall(a, i, d, rem) ==
    IF i = 0 THEN <<>>
    ELSE LET x == rem * Radix + a[i]
         IN  BigDivSmall(a, i - 1, d, x % d) \o <<x \div d>>

\* a \div 2^k
BigShr(a, k) ==
    IF k \div 15 >= Len(a) THEN <<>>
    ELSE LET top == SubSeq(a, (k \div 15) + 1, Len(a))
         IN  BigTrim(BigDivSmall(top, Len(top), 2^(k % 15), 0))

RECURSIVE Bits(_)
Bits(n) == IF n = 0 THEN 0 ELSE 1 + Bits(n \div 2)

\* the number of bits of a
BigBits(a) == IF a = <<>> THEN 0 ELSE 15 * (Len(a) - 1) + Bits(a[Len(a)])

\* a * d for one limb d
BigScale(a, d) == BigTrim(BigMulSmall(a, d, 0))

\* the largest q <= qhat with q * b <= a
RECURSIVE BigDivCorrect(_, _, _)
BigDivCorrect(a, b, qhat) ==
    IF BigCmp(BigScale(b, qhat), a) > 0 THEN BigDivCorrect(a, b, qhat - 1)
    ELSE [q |-> qhat, r |-> BigSub(a, BigScale(b, qhat))]

\* the two top limbs of a over the top limb of b, where b has n limbs: not
\* below the quotient, and at most two above it when the top limb of b is at
\* least Radix \div 2
BigDivEstimate(a, b, n) ==
    ((IF Len(a) > n THEN a[n + 1] ELSE 0) * Radix + a[n]) \div b[n]

\* quotient and remainder of a by b > 0, for a < b * Radix (one limb of
\* quotient) and the top limb of b at least Radix \div 2
BigDivStep(a, b) ==
    IF Len(a) < Len(b) THEN [q |-> 0, r |-> a]
    ELSE IF BigDivEstimate(a, b, Len(b)) >= Radix THEN BigDivCorrect(a, b, Radix - 1)
    ELSE BigDivCorrect(a, b, BigDivEstimate(a, b, Len(b)))

\* the quotient limb d placed below the limbs of the quotient t
BigLongDivLimb(t, d) == [q |-> <<d.q>> \o t.q, r |-> d.r]

\* t is the quotient and remainder of the limbs above limb
BigLongDivNext(t, limb, b) == BigLongDivLimb(t, BigDivStep(BigTrim(<<limb>> \o t.r), b))

\* long division: quotient and remainder of the limbs i.. of a by b
RECURSIVE BigLongDiv(_, _, _)
BigLongDiv(a, i, b) ==
    IF i > Len(a) THEN [q |-> <<>>, r |-> <<>>]
    ELSE BigLongDivNext(BigLongDiv(a, i + 1, b), a[i], b)

\* the quotient without leading zero limbs, the remainder scaled back by 2^k
BigDivTrim(d, k) == [q |-> BigTrim(d.q), r |-> BigShr(d.r, k)]

\* a and b scaled by 2^k, which makes the top limb of b at least Radix \div 2
BigDivModScaled(a, b, k) == BigDivTrim(BigLongDiv(BigShl(a, k), 1, BigShl(b, k)), k)

\* quotient and remainder of a by b > 0
BigDivMod(a, b) == BigDivModScaled(a, b, 15 - Bits(b[Len(b)]))

FZero == [neg |-> FALSE, m |-> <<>>, e |-> 0]

\* the rounded significand q at exponent e: a carry out of the 53 bits moves
\* the exponent up
F64Carry(neg, q, e) ==
    IF BigBits(q) > 53
    THEN [neg |-> neg, m |-> BigShr(q, 1), e |-> e + 1]
    ELSE [neg |-> neg, m |-> q, e |-> e]

\* q rounded up or not: c compares the dropped bits with half a unit of q
F64Nearest(neg, q, c, e) ==
    F64Carry(neg, IF c > 0 \/ (c = 0 /\ q[1] % 2 = 1) THEN BigAdd(q, <<1>>) ELSE q, e)

\* p has k bits more than 53, q is its top 53 bits
F64Drop(neg, p, k, q, e) ==
    F64Nearest(neg, q, BigCmp(BigSub(p, BigShl(q, k)), BigShl(<<1>>, k - 1)), e + k)

\* p # 0 has n bits
F64Bits(neg, p, e, n) ==
    IF n <= 53
    THEN [neg |-> neg, m |-> BigShl(p, 53 - n), e |-> e - (53 - n)]
    ELSE F64Drop(neg, p, n - 53, BigShr(p, n - 53), e)

\* the double nearest to (-1)^neg * p * 2^e, ties to even
F64(neg, p, e) == IF p = <<>> THEN FZero ELSE F64Bits(neg, p, e, BigBits(p))

\* i as f64, and the literal n/d (d a power of ten) as rustc reads it
FOfInt(i) == F64(i < 0, BigOfInt(IF i < 0 THEN -i ELSE i), 0)

\* x * y
FMul(x, y) ==
    IF x.m = <<>> \/ y.m = <<>> THEN FZero
    ELSE F64(x.neg # y.neg, BigMul(x.m, y.m), x.e + y.e)

\* -x
FNeg(x) == IF x.m = <<>> THEN x ELSE [x EXCEPT !.neg = ~x.neg]

\* x + y for the significands a and b of x and y at the common exponent e;
\* c compares a with b
FAddSigned(x, y, a, b, c, e) ==
    IF x.neg = y.neg THEN F64(x.neg, BigAdd(a, b), e)
    ELSE IF c = 0 THEN FZero
    ELSE IF c > 0 THEN F64(x.neg, BigSub(a, b), e)
    ELSE F64(y.neg, BigSub(b, a), e)

FAddAligned(x, y, a, b, e) == FAddSigned(x, y, a, b, BigCmp(a, b), e)

FAddAt(x, y, e) == FAddAligned(x, y, BigShl(x.m, x.e - e), BigShl(y.m, y.e - e), e)

\* x + y
FAdd(x, y) ==
    IF x.m = <<>> THEN y
    ELSE IF y.m = <<>> THEN x
    ELSE FAddAt(x, y, IF x.e < y.e THEN x.e ELSE y.e)

\* x - y
FSub(x, y) == FAdd(x, FNeg(y))

\* x / y from h, the quotient and remainder of x.m * 2^56 by y.m: the quotient
\* with one more bit that tells whether anything remains
FDivSticky(x, y, h) ==
    F64(x.neg # y.neg, BigAdd(BigAdd(h.q, h.q), IF h.r = <<>> THEN <<>> ELSE <<1>>),
        x.e - y.e - 57)

\* x / y, for y # 0
FDiv(x, y) ==
    IF y.m # <<>> /\ x.m = <<>> THEN FZero
    ELSE FDivSticky(x, y, BigDivMod(BigShl(x.m, 56), y.m))

\* x < 0
FNegative(x) == x.m # <<>> /\ x.neg

\* x < y
FLess(x, y) == FNegative(FSub(x, y))

\* f64::min
FMin(x, y) == IF FLess(y, x) THEN y ELSE x

\* x has k fraction bits, q is its integer part
FRoundAt(x, k, q) ==
    F64(x.neg,
        IF BigCmp(BigSub(x.m, BigShl(q, k)), BigShl(<<1>>, k - 1)) >= 0
        THEN BigAdd(q, <<1>>) ELSE q,
        0)

\* f64::round: to the nearest integer, half away from zero
FRound(x) == IF x.m = <<>> \/ x.e >= 0 THEN x ELSE FRoundAt(x, -x.e, BigShr(x.m, -x.e))

\* the decimal literal n / d of the source (d a power of ten) as an f64
Dec(n, d) == FDiv(FOfInt(n), FOfInt(d))

\* f64::clamp
FClamp(x, min, max) == IF FLess(x, min) THEN min ELSE IF FLess(max, x) THEN max ELSE x

(***************************************************************************)
(* Option and ParseError.                                                  *)
(***************************************************************************)
\* Option::None of a metric slot (distinct from the enum variants named "None")
None == "Option::None"

\* Option<f64>: None and Some(v)
NoneF == [some |-> FALSE, v |-> FZero]
SomeF(x) == [some |-> TRUE, v |-> x]

Pending == [kind |-> "Pending", a |-> <<>>, b |-> <<>>]
Ok == [kind |-> "Ok", a |-> <<>>, b |-> <<>>]
InvalidPrefix(found) == [kind |-> "InvalidPrefix", a |-> found, b |-> <<>>]
InvalidVersion(version) == [kind |-> "InvalidVersion", a |-> version, b |-> <<>>]
InvalidComponent(component) == [kind |-> "InvalidComponent", a |-> component, b |-> <<>>]
UnknownMetric(metric) == [kind |-> "UnknownMetric", a |-> metric, b |-> <<>>]
InvalidMetricValue(metric, value) == [kind |-> "InvalidMetricValue", a |-> metric, b |-> value]
MissingRequiredMetric(metric) == [kind |-> "MissingRequiredMetric", a |-> metric, b |-> <<>>]
DuplicateMetric(metric) == [kind |-> "DuplicateMetric", a |-> metric, b |-> <<>>]

\* the record of a from_str call that returned Err (the local is dropped)
NoRecord == [dropped |-> TRUE]

(***************************************************************************)
(* The metric enumerations: each is the list of <<strum serialize string,   *)
(* variant>> pairs of the enum, in declaration order.                      *)
(***************************************************************************)
V2AccessVector ==
    << <<<<"N">>, "Network">>,
       <<<<"A">>, "AdjacentNetwork">>,
       <<<<"L">>, "Local">> >>

V2AccessComplexity ==
    << <<<<"H">>, "High">>,
       <<<<"M">>, "Medium">>,
       <<<<"L">>, "Low">> >>

V2Authentication ==
    << <<<<"M">>, "Multiple">>,
       <<<<"S">>, "Single">>,
       <<<<"N">>, "None">> >>

V2Impact ==
    << <<<<"N">>, "None">>,
       <<<<"P">>, "Partial">>,
       <<<<"C">>, "Complete">> >>

V2Exploitability ==
    << <<<<"U">>, "Unproven">>,
       <<<<"P","O","C">>, "ProofOfConcept">>,
       <<<<"F">>, "Functional">>,
       <<<<"H">>, "High">>,
       <<<<"N","D">>, "NotDefined">> >>

V2RemediationLevel ==
    << <<<<"O","F">>, "OfficialFix">>,
       <<<<"T","F">>, "TemporaryFix">>,
       <<<<"W">>, "Workaround">>,
       <<<<"U">>, "Unavailable">>,
       <<<<"N","D">>, "NotDefined">> >>

V2ReportConfidence ==
    << <<<<"U","C">>, "Unconfirmed">>,
       <<<<"U","R">>, "Uncorroborated">>,
       <<<<"C">>, "Confirmed">>,
       <<<<"N","D">>, "NotDefined">> >>

V2CollateralDamagePotential ==
    << <<<<"N">>, "None">>,
       <<<<"L">>, "Low">>,
       <<<<"L","M">>, "LowMedium">>,
       <<<<"M","H">>, "MediumHigh">>,
       <<<<"H">>, "High">>,
       <<<<"N","D">>, "NotDefined">> >>

V2TargetDistribution ==
    << <<<<"N">>, "None">>,
       <<<<"L">>, "Low">>,
       <<<<"M">>, "Medium">>,
       <<<<"H">>, "High">>,
       <<<<"N","D">>, "NotDefined">> >>

V2SecurityRequirement ==
    << <<<<"L">>, "Low">>,
       <<<<"M">>, "Medium">>,
       <<<<"H">>, "High">>,
       <<<<"N","D">>, "NotDefined">> >>

V3AttackVector ==
    << <<<<"N">>, "Network">>,
       <<<<"A">>, "AdjacentNetwork">>,
       <<<<"L">>, "Local">>,
       <<<<"P">>, "Physical">>,
       <<<<"X">>, "NotDefined">> >>

V3AttackComplexity ==
    << <<<<"L">>, "Low">>,
       <<<<"H">>, "High">>,
       <<<<"X">>, "NotDefined">> >>

V3PrivilegesRequired ==
    << <<<<"N">>, "None">>,
       <<<<"L">>, "Low">>,
       <<<<"H">>, "High">>,
       <<<<"X">>, "NotDefined">> >>

V3UserInteraction ==
    << <<<<"N">>, "None">>,
       <<<<"R">>, "Required">>,
       <<<<"X">>, "NotDefined">> >>

V3Scope ==
    << <<<<"U">>, "Unchanged">>,
       <<<<"C">>, "Changed">>,
       <<<<"X">>, "NotDefined">> >>

V3Impact ==
    << <<<<"H">>, "High">>,
       <<<<"L">>, "Low">>,
       <<<<"N">>, "None">>,
       <<<<"X">>, "NotDefined">> >>

V3ExploitCodeMaturity ==
    << <<<<"U">>, "Unproven">>,
       <<<<"P">>, "ProofOfConcept">>,
       <<<<"F">>, "Functional">>,
       <<<<"H">>, "High">>,
       <<<<"X">>, "NotDefined">> >>

V3RemediationLevel ==
    << <<<<"O">>, "OfficialFix">>,
       <<<<"T">>, "TemporaryFix">>,
       <<<<"W">>, "Workaround">>,
       <<<<"U">>, "Unavailable">>,
       <<<<"X">>, "NotDefined">> >>

V3ReportConfidence ==
    << <<<<"U">>, "Unknown">>,
       <<<<"R">>, "Reasonable">>,
       <<<<"C">>, "Confirmed">>,
       <<<<"X">>, "NotDefined">> >>

V3SecurityRequirement ==
    << <<<<"L">>, "Low">>,
       <<<<"M">>, "Medium">>,
       <<<<"H">>, "High">>,
       <<<<"X">>, "NotDefined">> >>

V4AttackVector ==
    << <<<<"N">>, "Network">>,
       <<<<"A">>, "Adjacent">>,
       <<<<"L">>, "Local">>,
       <<<<"P">>, "Physical">> >>

V4AttackComplexity ==
    << <<<<"L">>, "Low">>,
       <<<<"H">>, "High">> >>

V4AttackRequirements ==
    << <<<<"N">>, "None">>,
       <<<<"P">>, "Present">> >>

V4PrivilegesRequired ==
    << <<<<"N">>, "None">>,
       <<<<"L">>, "Low">>,
       <<<<"H">>, "High">> >>

V4UserInteraction ==
    << <<<<"N">>, "None">>,
       <<<<"P">>, "Passive">>,
       <<<<"A">>, "Active">> >>

V4Impact ==
    << <<<<"H">>, "High">>,
       <<<<"L">>, "Low">>,
       <<<<"N">>, "None">> >>

V4ExploitMaturity ==
    << <<<<"A">>, "Attacked">>,
       <<<<"P">>, "ProofOfConcept">>,
       <<<<"U">>, "Unreported">>,
       <<<<"X">>, "NotDefined">> >>

\* a variant of V4Requirement with the code X;
\* C30_NotDefinedOnlyThreatAndSupplemental tells it from the code
V4Requirement_WithNotDefined ==
    << <<<<"H">>, "High">>,
       <<<<"M">>, "Medium">>,
       <<<<"L">>, "Low">>,
       <<<<"X">>, "NotDefined">> >>

V4Requirement ==
    << <<<<"H">>, "High">>,
       <<<<"M">>, "Medium">>,
       <<<<"L">>, "Low">> >>

V4Safety ==
    << <<<<"N">>, "Negligible">>,
       <<<<"P">>, "Present">>,
       <<<<"X">>, "NotDefined">> >>

V4Automatable ==
    << <<<<"N">>, "No">>,
       <<<<"Y">>, "Yes">>,
       <<<<"X">>, "NotDefined">> >>

V4Recovery ==
    << <<<<"A">>, "Automatic">>,
       <<<<"U">>, "User">>,
       <<<<"I">>, "Irrecoverable">>,
       <<<<"X">>, "NotDefined">> >>

V4ValueDensity ==
    << <<<<"D">>, "Diffuse">>,
       <<<<"C">>, "Concentrated">>,
       <<<<"X">>, "NotDefined">> >>

V4VulnerabilityResponseEffort ==
    << <<<<"L">>, "Low">>,
       <<<<"M">>, "Moderate">>,
       <<<<"H">>, "High">>,
       <<<<"X">>, "NotDefined">> >>

V4ProviderUrgency ==
    << <<<<"C","l","e","a","r">>, "Clear">>,
       <<<<"G","r","e","e","n">>, "Green">>,
       <<<<"A","m","b","e","r">>, "Amber">>,
       <<<<"R","e","d">>, "Red">>,
       <<<<"X">>, "NotDefined">> >>

(***************************************************************************)
(* The `match key.as_str()` arms of each from_str: <<key literal, field of  *)
(* the record the arm assigns, enum the value is parsed as>>.              *)
(***************************************************************************)
V2Keys ==
    << <<<<"A","V">>, "access_vector", V2AccessVector>>,
       <<<<"A","C">>, "access_complexity", V2AccessComplexity>>,
       <<<<"A","U">>, "authentication", V2Authentication>>,
       <<<<"C">>, "confidentiality_impact", V2Impact>>,
       <<<<"I">>, "integrity_impact", V2Impact>>,
       <<<<"A">>, "availability_impact", V2Impact>>,
       <<<<"E">>, "exploitability", V2Exploitability>>,
       <<<<"R","L">>, "remediation_level", V2RemediationLevel>>,
       <<<<"R","C">>, "report_confidence", V2ReportConfidence>>,
       <<<<"C","D","P">>, "collateral_damage_potential", V2CollateralDamagePotential>>,
       <<<<"T","D">>, "target_distribution", V2TargetDistribution>>,
       <<<<"C","R">>, "confidentiality_requirement", V2SecurityRequirement>>,
       <<<<"I","R">>, "integrity_requirement", V2SecurityRequirement>>,
       <<<<"A","R">>, "availability_requirement", V2SecurityRequirement>> >>

V3Keys ==
    << <<<<"A","V">>, "attack_vector", V3AttackVector>>,
       <<<<"A","C">>, "attack_complexity", V3AttackComplexity>>,
       <<<<"P","R">>, "privileges_required", V3PrivilegesRequired>>,
       <<<<"U","I">>, "user_interaction", V3UserInteraction>>,
       <<<<"S">>, "scope", V3Scope>>,
       <<<<"C">>, "confidentiality_impact", V3Impact>>,
       <<<<"I">>, "integrity_impact", V3Impact>>,
       <<<<"A">>, "availability_impact", V3Impact>>,
       <<<<"E">>, "exploit_code_maturity", V3ExploitCodeMaturity>>,
       <<<<"R","L">>, "remediation_level", V3RemediationLevel>>,
       <<<<"R","C">>, "report_confidence", V3ReportConfidence>>,
       <<<<"C","R">>, "confidentiality_requirement", V3SecurityRequirement>>,
       <<<<"I","R">>, "integrity_requirement", V3SecurityRequirement>>,
       <<<<"A","R">>, "availability_requirement", V3SecurityRequirement>>,
       <<<<"M","A","V">>, "modified_attack_vector", V3AttackVector>>,
       <<<<"M","A","C">>, "modified_attack_complexity", V3AttackComplexity>>,
       <<<<"M","P","R">>, "modified_privileges_required", V3PrivilegesRequired>>,
       <<<<"M","U","I">>, "modified_user_interaction", V3UserInteraction>>,
       <<<<"M","S">>, "modified_scope", V3Scope>>,
       <<<<"M","C">>, "modified_confidentiality_impact", V3Impact>>,
       <<<<"M","I">>, "modified_integrity_impact", V3Impact>>,
       <<<<"M","A">>, "modified_availability_impact", V3Impact>> >>

V4Keys ==
    << <<<<"A","V">>, "attack_vector", V4AttackVector>>,
       <<<<"A","C">>, "attack_complexity", V4AttackComplexity>>,
       <<<<"A","T">>, "attack_requirements", V4AttackRequirements>>,
       <<<<"P","R">>, "privileges_required", V4PrivilegesRequired>>,
       <<<<"U","I">>, "user_interaction", V4UserInteraction>>,
       <<<<"V","C">>, "vuln_confidentiality_impact", V4Impact>>,
       <<<<"V","I">>, "vuln_integrity_impact", V4Impact>>,
       <<<<"V","A">>, "vuln_availability_impact", V4Impact>>,
       <<<<"S","C">>, "sub_confidentiality_impact", V4Impact>>,
       <<<<"S","I">>, "sub_integrity_impact", V4Impact>>,
       <<<<"S","A">>, "sub_availability_impact", V4Impact>>,
       <<<<"E">>, "exploit_maturity", V4ExploitMaturity>>,
       <<<<"C","R">>, "confidentiality_requirement", V4Requirement>>,
       <<<<"I","R">>, "integrity_requirement", V4Requirement>>,
       <<<<"A","R">>, "availability_requirement", V4Requirement>>,
       <<<<"M","A","V">>, "modified_attack_vector", V4AttackVector>>,
       <<<<"M","A","C">>, "modified_attack_complexity", V4AttackComplexity>>,
       <<<<"M","A","T">>, "modified_attack_requirements", V4AttackRequirements>>,
       <<<<"M","P","R">>, "modified_privileges_required", V4PrivilegesRequired>>,
       <<<<"M","U","I">>, "modified_user_interaction", V4UserInteraction>>,
       <<<<"M","V","C">>, "modified_vuln_confidentiality_impact", V4Impact>>,
       <<<<"M","V","I">>, "modified_vuln_integrity_impact", V4Impact>>,
       <<<<"M","V","A">>, "modified_vuln_availability_impact", V4Impact>>,
       <<<<"M","S","C">>, "modified_sub_confidentiality_impact", V4Impact>>,
       <<<<"M","S","I">>, "modified_sub_integrity_impact", V4Impact>>,
       <<<<"M","S","A">>, "modified_sub_availability_impact", V4Impact>>,
       <<<<"S">>, "safety", V4Safety>>,
       <<<<"A","U">>, "automatable", V4Automatable>>,
       <<<<"R">>, "recovery", V4Recovery>>,
       <<<<"V">>, "value_density", V4ValueDensity>>,
       <<<<"R","E">>, "vulnerability_response_effort", V4VulnerabilityResponseEffort>>,
       <<<<"U">>, "provider_urgency", V4ProviderUrgency>> >>

(***************************************************************************)
(* The records.                                                            *)
(***************************************************************************)
Parsers == {"v2", "v3", "v4"}

KeyTable(p) ==
    CASE p = "v2" -> V2Keys
      [] p = "v3" -> V3Keys
      [] p = "v4" -> V4Keys

\* the Option<metric> fields of the struct of parser p
MetricFields(p) == {KeyTable(p)[i][2] : i \in 1..Len(KeyTable(p))}

\* the fields of the struct that hold the scores and severities a document reports
ReportedFields(p) ==
    CASE p = "v2" -> [severity |-> None, base_score |-> FZero,
                      temporal_score |-> NoneF, environmental_score |-> NoneF]
      [] p = "v3" -> [base_score |-> FZero, base_severity |-> "None",
                      temporal_score |-> NoneF, temporal_severity |-> None,
                      environmental_score |-> NoneF, environmental_severity |-> None]
      [] p = "v4" -> [base_score |-> FZero, base_severity |-> "None"]

\* a variant of EmptyRecord that stores the string in upper case;
\* C18_VerbatimAndDefaults tells it from the code
EmptyRecord_UpperCased(p, s) ==
    [vector_string |-> to_ascii_uppercase(s)] @@ ReportedFields(p)
    @@ [f \in MetricFields(p) |-> None]

\* the struct literal from_str starts from: the string verbatim, the reported
\* fields at their defaults, every metric slot empty
EmptyRecord(p, s) ==
    [vector_string |-> s] @@ ReportedFields(p) @@ [f \in MetricFields(p) |-> None]

(***************************************************************************)
(* from_str, prefix part.                                                  *)
(***************************************************************************)
CVSS == <<"C","V","S","S">>

SupportedVersions(p) ==
    CASE p = "v2" -> {<<"2",".","0">>}
      [] p = "v3" -> {<<"3",".","0">>, <<"3",".","1">>}
      [] p = "v4" -> {<<"4",".","0">>}

\* a variant of ParsePrefixV3V4 in which a prefix token without ':' is an
\* InvalidPrefix; C2_PrefixErrors tells it from the code
ParsePrefixV3V4_NoColonIsPrefix(p, s) ==
    LET components == split(s, "/")
        version_component == Head(components)
        version_parts == split(version_component, ":")
        prefix == Head(version_parts)
    IN  IF ~eq_ignore_ascii_case(prefix, CVSS) \/ Len(version_parts) < 2
        THEN [err |-> InvalidPrefix(version_component), components |-> <<>>]
        ELSE IF version_parts[2] \notin SupportedVersions(p)
        THEN [err |-> InvalidVersion(version_parts[2]), components |-> <<>>]
        ELSE [err |-> Ok, components |-> Tail(components)]

\* CvssV3::from_str and CvssV4::from_str up to the struct literal: the first
\* '/'-piece is the version component, its first ':'-piece the prefix
ParsePrefixV3V4(p, s) ==
    LET components == split(s, "/")
        version_component == Head(components)
        version_parts == split(version_component, ":")
        prefix == Head(version_parts)
    IN  IF ~eq_ignore_ascii_case(prefix, CVSS)
        THEN [err |-> InvalidPrefix(prefix), components |-> <<>>]
        ELSE IF Len(version_parts) < 2
        THEN [err |-> InvalidVersion(version_component), components |-> <<>>]
        ELSE IF version_parts[2] \notin SupportedVersions(p)
        THEN [err |-> InvalidVersion(version_parts[2]), components |-> <<>>]
        ELSE [err |-> Ok, components |-> Tail(components)]

\* CvssV2::from_str up to the struct literal: an exact "CVSS:2.0/" or
\* "cvss:2.0/" is cut off, anything else is left to the metric loop
ParsePrefixV2(s) ==
    LET components_str ==
            IF \/ starts_with(s, CVSS \o <<":","2",".","0","/">>)
               \/ starts_with(s, to_ascii_lowercase(CVSS) \o <<":","2",".","0","/">>)
            THEN SubSeq(s, 10, Len(s))
            ELSE s
    IN  [err |-> Ok, components |-> split(components_str, "/")]

ParsePrefix(p, s) == IF p = "v2" THEN ParsePrefixV2(s) ELSE ParsePrefixV3V4(p, s)

(***************************************************************************)
(* from_str, one iteration of the metric loop.                             *)
(***************************************************************************)
\* <Enum as FromStr>::from_str as strum derives it: an exact, case-sensitive
\* match against the serialize strings
EnumFromStr(enum, s) ==
    IF \E i \in 1..Len(enum) : enum[i][1] = s
    THEN [ok |-> TRUE, v |-> enum[CHOOSE i \in 1..Len(enum) : enum[i][1] = s][2]]
    ELSE [ok |-> FALSE, v |-> None]

Skip == [kind |-> "skip", field |-> "", v |-> None, err |-> Ok]
Set(field, v) == [kind |-> "set", field |-> field, v |-> v, err |-> Ok]
Fail(e) == [kind |-> "err", field |-> "", v |-> None, err |-> e]

\* a variant of UnknownKeyArm that fails in v2.0 as well; C5_UnknownKey tells
\* it from the code
UnknownKeyArm_Strict(p, key) == Fail(UnknownMetric(key))

\* the `_ =>` arm of the match: v2.0 ignores the component, v3.x and v4.0 fail
UnknownKeyArm(p, key) == IF p = "v2" THEN Skip ELSE Fail(UnknownMetric(key))

\* the arm of a recognised key: parse the value as the arm's enum
KeyArm(arm, key, value) ==
    LET parsed == EnumFromStr(arm[3], value)
    IN  IF parsed.ok THEN Set(arm[2], parsed.v)
        ELSE Fail(InvalidMetricValue(key, value))

\* `match key.as_str() { ... }`
MatchKey(p, key, value) ==
    LET arms == KeyTable(p)
    IN  IF \E i \in 1..Len(arms) : arms[i][1] = key
        THEN KeyArm(arms[CHOOSE i \in 1..Len(arms) : arms[i][1] = key], key, value)
        ELSE UnknownKeyArm(p, key)

\* a variant of ParseComponent without the check for extra colons;
\* C4_ColonCount tells it from the code
ParseComponent_NoExtraColonCheck(p, component) ==
    IF component = <<>> THEN Skip
    ELSE LET parts == split(component, ":")
         IN  IF Len(parts) < 2 THEN Fail(InvalidComponent(component))
             ELSE MatchKey(p, to_ascii_uppercase(parts[1]), to_ascii_uppercase(parts[2]))

\* a variant of ParseComponent that looks the key up before it counts the
\* colons; C6_FirstErrorWins tells it from the code
ParseComponent_KeyFirst(p, component) ==
    IF component = <<>> THEN Skip
    ELSE LET parts == split(component, ":")
         IN  IF Len(parts) < 2 THEN Fail(InvalidComponent(component))
             ELSE LET r == MatchKey(p, to_ascii_uppercase(parts[1]),
                                    to_ascii_uppercase(parts[2]))
                  IN  IF r.kind = "err" \/ Len(parts) = 2 THEN r
                      ELSE Fail(InvalidComponent(component))

\* the body of `for component in components`
ParseComponent(p, component) ==
    IF component = <<>> THEN Skip
    ELSE LET parts == split(component, ":")
         IN  IF Len(parts) < 2 THEN Fail(InvalidComponent(component))
             ELSE LET key == to_ascii_uppercase(parts[1])
                      value == to_ascii_uppercase(parts[2])
                  IN  IF Len(parts) > 2 THEN Fail(InvalidComponent(component))
                      ELSE MatchKey(p, key, value)

\* a variant of SetSlot that keeps the first value of a slot;
\* C7_NoMissingNoDuplicate tells it from the code
SetSlot_FirstWins(record, field, v) ==
    IF record[field] = None THEN [record EXCEPT ![field] = v] ELSE record

\* `cvss.<field> = Some(<value>)`: the slot is overwritten, set or not
SetSlot(record, field, v) == [record EXCEPT ![field] = v]

(***************************************************************************)
(* from_str as a process.                                                  *)
(***************************************************************************)
\* from_str is entered: the prefix is examined and the record initialised
FromStrBegin ==
    /\ pc = "start"
    /\ LET r == ParsePrefix(parser, input)
       IN  IF r.err = Ok
           THEN /\ cvss' = EmptyRecord(parser, input)
                /\ rest' = r.components
                /\ pc' = "loop"
                /\ result' = result
           ELSE /\ cvss' = NoRecord
                /\ rest' = <<>>
                /\ pc' = "done"
                /\ result' = r.err
    /\ UNCHANGED <<parser, input, call, ret>>

\* one iteration of the metric loop on the next component
FromStrComponent ==
    /\ pc = "loop"
    /\ rest # <<>>
    /\ LET r == ParseComponent(parser, Head(rest))
       IN  IF r.kind = "err"
           THEN /\ cvss' = NoRecord
                /\ rest' = <<>>
                /\ pc' = "done"
                /\ result' = r.err
           ELSE /\ cvss' = IF r.kind = "set" THEN SetSlot(cvss, r.field, r.v) ELSE cvss
                /\ rest' = Tail(rest)
                /\ pc' = "loop"
                /\ result' = result
    /\ UNCHANGED <<parser, input, call, ret>>

\* the loop is exhausted: Ok(cvss)
FromStrReturn ==
    /\ pc = "loop"
    /\ rest = <<>>
    /\ pc' = "done"
    /\ result' = Ok
    /\ UNCHANGED <<parser, input, rest, cvss, call, ret>>

(***************************************************************************)
(* The input strings the parsers are run on.                               *)
(***************************************************************************)
\* s with its first letter upper-cased and the others lower-cased
Capitalized(s) ==
    IF s = <<>> THEN <<>>
    ELSE <<to_ascii_uppercase_char(s[1])>> \o to_ascii_lowercase(Tail(s))

\* s in upper, lower and mixed case
Cases(s) == {to_ascii_uppercase(s), to_ascii_lowercase(s), Capitalized(s)}

Segment(k, v) == k \o <<":">> \o v

\* the prefix a well-formed input of parser p starts with
Pre(p) ==
    CASE p = "v2" -> <<>>
      [] p = "v3" -> CVSS \o <<":","3",".","1","/">>
      [] p = "v4" -> CVSS \o <<":","4",".","0","/">>

\* every value code some enum of parser p defines
Codes(p) ==
    UNION {{KeyTable(p)[i][3][j][1] : j \in 1..Len(KeyTable(p)[i][3])} :
             i \in 1..Len(KeyTable(p))}

\* values no enum defines
JunkValues == {<<"Z">>, <<>>, <<"N","N">>, <<"1">>}

KeyForms(p) == UNION {Cases(KeyTable(p)[i][1]) : i \in 1..Len(KeyTable(p))}
ValueForms(p) == UNION {Cases(c) : c \in Codes(p)} \cup JunkValues

\* one segment KEY:VALUE after the prefix, every key in every case against
\* every value in every case
SingleSegmentInputs(p) ==
    {Pre(p) \o Segment(k, v) : k \in KeyForms(p), v \in ValueForms(p)}

\* segments for the runs: valid, repeated key, bad value, unknown key, no
\* colon, two colons, empty
SegmentPool ==
    { <<"A","V",":","N">>, <<"a","v",":","l">>, <<"A","C",":","H">>,
      <<"A","V",":","Z">>, <<"Z","Z",":","N">>, <<"A","V">>,
      <<"A","V",":","N",":","L">>, <<"Z","Z",":","N",":","L">>, <<>> }

RECURSIVE SegmentRuns(_)
SegmentRuns(n) ==
    IF n = 0 THEN {<<>>}
    ELSE LET shorter == SegmentRuns(n - 1)
         IN  shorter \cup {Append(r, g) : r \in {x \in shorter : Len(x) = n - 1},
                                          g \in SegmentPool}

RunInputs(p) == {Pre(p) \o join(r, "/") : r \in SegmentRuns(MaxSegs)}

\* first tokens: supported, unsupported and malformed prefixes
PrefixTokens ==
    { CVSS \o <<":","3",".","1">>, CVSS \o <<":","3",".","0">>,
      CVSS \o <<":","4",".","0">>, CVSS \o <<":","2",".","0">>,
      <<"c","v","s","s",":","3",".","1">>, <<"C","v","s","s",":","4",".","0">>,
      <<"c","v","s","s",":","2",".","0">>, <<"C","v","s","s",":","2",".","0">>,
      CVSS, <<"c","v","s","s">>, CVSS \o <<":">>,
      CVSS \o <<":","3",".","2">>, CVSS \o <<":","3">>, CVSS \o <<":","1",".","0">>,
      CVSS \o <<":","3",".","1",":","4">>, CVSS \o <<":","4",".","0",":">>,
      CVSS \o <<":","2",".","0",":","x">>,
      CVSS \o <<"X",":","3",".","1">>, <<"X">> \o CVSS \o <<":","4",".","0">>,
      <<"A","V",":","N">>, <<"3",".","1">>, <<"F","O","O">>, <<>> }

PrefixTails ==
    { <<>>, <<"/">>, <<"/","A","V",":","N">>, <<"/","A","V",":","Z">>,
      <<"/","A","V">>, <<"/","A","V",":","N","/","A","C",":","H">> }

PrefixInputs == {t \o r : t \in PrefixTokens, r \in PrefixTails}

\* the number of base metrics of parser p (the first arms of its match)
NumBase(p) == CASE p = "v2" -> 6 [] p = "v3" -> 8 [] p = "v4" -> 11

\* the first n keys of parser p, each with the first or the last code of its enum
Vector(p, n, last) ==
    Pre(p) \o join([i \in 1..n |->
                      LET arm == KeyTable(p)[i]
                      IN  Segment(arm[1], arm[3][IF last THEN Len(arm[3]) ELSE 1][1])],
                   "/")

FullVectorInputs(p) ==
    {Vector(p, n, last) : n \in {NumBase(p), Len(KeyTable(p))}, last \in BOOLEAN}

\* a base vector in lower case with a trailing '/'
LowerVectorInputs(p) == {to_ascii_lowercase(Vector(p, NumBase(p), TRUE)) \o <<"/">>}

Inputs(p) ==
    SingleSegmentInputs(p) \cup RunInputs(p) \cup PrefixInputs \cup FullVectorInputs(p)
    \cup LowerVectorInputs(p)

(***************************************************************************)
(* The parser specification.                                               *)
(***************************************************************************)
Init ==
    /\ parser \in Parsers
    /\ input \in Inputs(parser)
    /\ pc = "start"
    /\ rest = <<>>
    /\ cvss = NoRecord
    /\ result = Pending
    /\ call = "none"
    /\ ret = NoneF

Next == FromStrBegin \/ FromStrComponent \/ FromStrReturn

Spec == Init /\ [][Next]_vars


(***************************************************************************)
(* CVSS v2.0 scoring (impl CvssV2).                                        *)
(***************************************************************************)
\* the f64 literals of the equations
f0 == FZero
f1 == Dec(1, 1)
f10 == Dec(10, 1)
f20 == Dec(20, 1)
f10_41 == Dec(1041, 100)
f1_176 == Dec(1176, 1000)
f0_6 == Dec(6, 10)
f0_4 == Dec(4, 10)
f1_5 == Dec(15, 10)

\* AccessVector::score
V2AccessVectorScore ==
    [Network |-> Dec(1, 1), AdjacentNetwork |-> Dec(646, 1000), Local |-> Dec(395, 1000)]

\* AccessComplexity::score
V2AccessComplexityScore ==
    [High |-> Dec(35, 100), Medium |-> Dec(61, 100), Low |-> Dec(71, 100)]

\* Authentication::score
V2AuthenticationScore ==
    [Multiple |-> Dec(45, 100), Single |-> Dec(56, 100), None |-> Dec(704, 1000)]

\* Impact::score
V2ImpactScore ==
    [None |-> FZero, Partial |-> Dec(275, 1000), Complete |-> Dec(660, 1000)]

\* Exploitability::score
V2ExploitabilityScore ==
    [Unproven |-> Dec(85, 100), ProofOfConcept |-> Dec(9, 10), Functional |-> Dec(95, 100),
     High |-> Dec(1, 1), NotDefined |-> Dec(1, 1)]

\* RemediationLevel::score
V2RemediationLevelScore ==
    [OfficialFix |-> Dec(87, 100), TemporaryFix |-> Dec(90, 100), Workaround |-> Dec(95, 100),
     Unavailable |-> Dec(1, 1), NotDefined |-> Dec(1, 1)]

\* ReportConfidence::score
V2ReportConfidenceScore ==
    [Unconfirmed |-> Dec(90, 100), Uncorroborated |-> Dec(95, 100), Confirmed |-> Dec(1, 1),
     NotDefined |-> Dec(1, 1)]

\* CollateralDamagePotential::score
V2CollateralDamagePotentialScore ==
    [None |-> FZero, Low |-> Dec(1, 10), LowMedium |-> Dec(3, 10), MediumHigh |-> Dec(4, 10),
     High |-> Dec(5, 10), NotDefined |-> FZero]

\* TargetDistribution::score
V2TargetDistributionScore ==
    [None |-> FZero, Low |-> Dec(25, 100), Medium |-> Dec(75, 100), High |-> Dec(1, 1),
     NotDefined |-> Dec(1, 1)]

\* SecurityRequirement::score
V2SecurityRequirementScore ==
    [Low |-> Dec(5, 10), Medium |-> Dec(1, 1), High |-> Dec(151, 100), NotDefined |-> Dec(1, 1)]

\* slot.as_ref().map_or(default, |v| v.score())
map_or_score(slot, default, score) == IF slot = None THEN default ELSE score[slot]

\* (value * 10.0).round() / 10.0
round_to_first_decimal(value) == FDiv(FRound(FMul(value, f10)), f10)

\* the impact of the base equation
V2Impact_WithImpact(ci, ii, ai) ==
    FMul(f10_41, FSub(f1, FMul(FMul(FSub(f1, ci), FSub(f1, ii)), FSub(f1, ai))))

\* the adjusted impact of the environmental equation
V2Impact_WithAdjustedImpact(ci, ii, ai, cr, ir, ar) ==
    FMin(FMul(f10_41,
              FSub(f1, FMul(FMul(FSub(f1, FMul(ci, cr)), FSub(f1, FMul(ii, ir))),
                            FSub(f1, FMul(ai, ar))))),
         f10)

\* let exploitability = 20.0 * av * ac * au
V2BaseExploitability(av, ac, au) == FMul(FMul(FMul(f20, av), ac), au)

\* let f_impact = if impact_score == 0.0 { 0.0 } else { 1.176 }
V2FImpact(impact_score) == IF impact_score = f0 THEN f0 ELSE f1_176

\* the base equation from the impact on
V2BaseEquation(impact_score, av, ac, au) ==
    round_to_first_decimal(
        FMul(FSub(FAdd(FMul(f0_6, impact_score),
                       FMul(f0_4, V2BaseExploitability(av, ac, au))),
                  f1_5),
             V2FImpact(impact_score)))

\* let impact_score = match impact_kind { ... }
V2ImpactScoreOf(self, impact_kind, ci, ii, ai) ==
    IF impact_kind = "WithImpact"
    THEN V2Impact_WithImpact(ci, ii, ai)
    ELSE V2Impact_WithAdjustedImpact(ci, ii, ai,
             map_or_score(self.confidentiality_requirement, f1, V2SecurityRequirementScore),
             map_or_score(self.integrity_requirement, f1, V2SecurityRequirementScore),
             map_or_score(self.availability_requirement, f1, V2SecurityRequirementScore))

\* a variant of CvssV2::calculate_base_score that also wants the exploitability
\* metric; C8_V2Unavailable tells it from the code
CvssV2_calculate_base_score_WantsE(self, impact_kind) ==
    IF \/ self.confidentiality_impact = None
       \/ self.integrity_impact = None
       \/ self.availability_impact = None
       \/ self.access_vector = None
       \/ self.access_complexity = None
       \/ self.authentication = None
       \/ self.exploitability = None
    THEN NoneF
    ELSE SomeF(V2BaseEquation(
             V2Impact_WithImpact(V2ImpactScore[self.confidentiality_impact],
                                 V2ImpactScore[self.integrity_impact],
                                 V2ImpactScore[self.availability_impact]),
             V2AccessVectorScore[self.access_vector],
             V2AccessComplexityScore[self.access_complexity],
             V2AuthenticationScore[self.authentication]))

\* CvssV2::calculate_base_score(&self, impact_kind)
CvssV2_calculate_base_score(self, impact_kind) ==
    IF \/ self.confidentiality_impact = None
       \/ self.integrity_impact = None
       \/ self.availability_impact = None
       \/ self.access_vector = None
       \/ self.access_complexity = None
       \/ self.authentication = None
    THEN NoneF
    ELSE SomeF(V2BaseEquation(
             V2ImpactScoreOf(self, impact_kind,
                             V2ImpactScore[self.confidentiality_impact],
                             V2ImpactScore[self.integrity_impact],
                             V2ImpactScore[self.availability_impact]),
             V2AccessVectorScore[self.access_vector],
             V2AccessComplexityScore[self.access_complexity],
             V2AuthenticationScore[self.authentication]))

\* CvssV2::calculated_base_score
CvssV2_calculated_base_score(self) == CvssV2_calculate_base_score(self, "WithImpact")

\* let base_score = self.calculate_base_score(impact)?; then
\* base_score * exploitability * remediation_level * report_confidence, rounded
V2TemporalOf(self, base_score) ==
    IF ~base_score.some THEN NoneF
    ELSE SomeF(round_to_first_decimal(
             FMul(FMul(FMul(base_score.v,
                            map_or_score(self.exploitability, f1, V2ExploitabilityScore)),
                       map_or_score(self.remediation_level, f1, V2RemediationLevelScore)),
                  map_or_score(self.report_confidence, f1, V2ReportConfidenceScore))))

\* CvssV2::calculate_temporal_score(&self, impact)
CvssV2_calculate_temporal_score(self, impact) ==
    V2TemporalOf(self, CvssV2_calculate_base_score(self, impact))

\* CvssV2::calculated_temporal_score
CvssV2_calculated_temporal_score(self) == CvssV2_calculate_temporal_score(self, "WithImpact")

\* let adjusted_temporal = self.calculate_temporal_score(...)?; then
\* (adjusted_temporal + (10.0 - adjusted_temporal) * cdp) * td, rounded
V2EnvironmentalOf(self, adjusted_temporal) ==
    IF ~adjusted_temporal.some THEN NoneF
    ELSE SomeF(round_to_first_decimal(
             FMul(FAdd(adjusted_temporal.v,
                       FMul(FSub(f10, adjusted_temporal.v),
                            map_or_score(self.collateral_damage_potential, f0,
                                         V2CollateralDamagePotentialScore))),
                  map_or_score(self.target_distribution, f1, V2TargetDistributionScore))))

\* CvssV2::calculated_environmental_score
CvssV2_calculated_environmental_score(self) ==
    V2EnvironmentalOf(self, CvssV2_calculate_temporal_score(self, "WithAdjustedImpact"))

(***************************************************************************)
(* Vocabulary of the properties.  A segment is classified here from its    *)
(* text alone, without running the parser.                                 *)
(***************************************************************************)
Done == pc = "done"

\* the first '/'-delimited token of the input
FirstToken == Head(split(input, "/"))

\* the prefix of the input passed, the metric segments are what follows it
PrefixAccepted == ParsePrefix(parser, input).err = Ok
Segments == ParsePrefix(parser, input).components

Colons(seg) == Cardinality({i \in 1..Len(seg) : seg[i] = ":"})
FirstColon(seg) == CHOOSE i \in 1..Len(seg) : seg[i] = ":" /\ \A j \in 1..(i - 1) : seg[j] # ":"

\* key and value of a segment with one colon, in upper case
KeyOf(seg) == to_ascii_uppercase(SubSeq(seg, 1, FirstColon(seg) - 1))
ValueOf(seg) == to_ascii_uppercase(SubSeq(seg, FirstColon(seg) + 1, Len(seg)))

Recognised(p, key) == \E i \in 1..Len(KeyTable(p)) : KeyTable(p)[i][1] = key
ArmOf(p, key) == KeyTable(p)[CHOOSE i \in 1..Len(KeyTable(p)) : KeyTable(p)[i][1] = key]

\* the value, compared in upper case, is one of the codes the enum defines
DefinesCode(enum, value) ==
    \E j \in 1..Len(enum) : to_ascii_uppercase(enum[j][1]) = value
VariantOfCode(enum, value) ==
    enum[CHOOSE j \in 1..Len(enum) : to_ascii_uppercase(enum[j][1]) = value][2]

\* the value is one the parser's match on the key takes
TakesValue(enum, value) == \E j \in 1..Len(enum) : enum[j][1] = value

\* what is wrong with a segment (Ok: nothing): colon count, then key, then value
Fault(p, seg) ==
    IF seg = <<>> THEN Ok
    ELSE IF Colons(seg) # 1 THEN InvalidComponent(seg)
    ELSE IF ~Recognised(p, KeyOf(seg))
         THEN IF p = "v2" THEN Ok ELSE UnknownMetric(KeyOf(seg))
    ELSE IF ~TakesValue(ArmOf(p, KeyOf(seg))[3], ValueOf(seg))
         THEN InvalidMetricValue(KeyOf(seg), ValueOf(seg))
    ELSE Ok

\* segment i of segs is the leftmost one with a fault
LeftmostIn(segs, i) ==
    /\ i \in 1..Len(segs)
    /\ Fault(parser, segs[i]) # Ok
    /\ \A j \in 1..(i - 1) : Fault(parser, segs[j]) = Ok

FaultlessIn(segs) == \A i \in 1..Len(segs) : Fault(parser, segs[i]) = Ok

\* the segment assigns the slot of key
Assigns(seg, key) ==
    /\ seg # <<>>
    /\ Colons(seg) = 1
    /\ KeyOf(seg) = key

\* a segment with a wrong colon count that no faulty segment precedes gives
\* InvalidComponent, and the parse succeeds exactly if no non-empty segment is
\* faulty
ColonCountIn(segs) ==
    /\ \A i \in 1..Len(segs) :
          ( /\ segs[i] # <<>>
            /\ Colons(segs[i]) # 1
            /\ \A j \in 1..(i - 1) : Fault(parser, segs[j]) = Ok )
          => result = InvalidComponent(segs[i])
    /\ (result = Ok) <=>
          \A i \in 1..Len(segs) : segs[i] # <<>> => Fault(parser, segs[i]) = Ok
    /\ result # InvalidComponent(<<>>)

\* the result is the fault of the leftmost faulty segment of segs, Ok if
\* there is none
LeftmostFaultIn(segs) ==
    /\ \A i \in 1..Len(segs) : LeftmostIn(segs, i) => result = Fault(parser, segs[i])
    /\ FaultlessIn(segs) => result = Ok

\* the slot of arm holds the value of the last of the segments occ of segs
\* that assign it, and nothing if there is none
LastWins(segs, arm, occ) ==
    IF occ = {} THEN cvss[arm[2]] = None
    ELSE cvss[arm[2]] =
             VariantOfCode(arm[3],
                           ValueOf(segs[CHOOSE i \in occ : \A j \in occ : j <= i]))

LastWinsIn(segs) ==
    FaultlessIn(segs) =>
        /\ result = Ok
        /\ \A k \in 1..Len(KeyTable(parser)) :
              LastWins(segs, KeyTable(parser)[k],
                       {i \in 1..Len(segs) : Assigns(segs[i], KeyTable(parser)[k][1])})

(***************************************************************************)
(* C1.  For every key a parser recognises and every value code the         *)
(* metric's enumeration defines, the sole segment KEY:VALUE is accepted in *)
(* any letter case and the slot then holds that value; a value outside the *)
(* enumeration fails with InvalidMetricValue carrying the upper-cased key  *)
(* and value.  (The claim as stated; v4.0 refutes it on U:Clear.)          *)
(***************************************************************************)
C1_EveryCodeAnyCase ==
    (Done /\ PrefixAccepted /\ Len(Segments) = 1 /\ Colons(Segments[1]) = 1
          /\ Recognised(parser, KeyOf(Segments[1])))
    => LET arm == ArmOf(parser, KeyOf(Segments[1]))
           value == ValueOf(Segments[1])
       IN  IF DefinesCode(arm[3], value)
           THEN result = Ok /\ cvss[arm[2]] = VariantOfCode(arm[3], value)
           ELSE result = InvalidMetricValue(KeyOf(Segments[1]), value)

(***************************************************************************)
(* C2.  v3.x and v4.0: a first token that does not start with CVSS         *)
(* (case-insensitively) fails with InvalidPrefix, and so does a first      *)
(* token without ':' -- except the token that is exactly CVSS in some      *)
(* letter case, which fails with InvalidVersion carrying that token.       *)
(***************************************************************************)
StartsWithCVSS(tok) == Len(tok) >= 4 /\ eq_ignore_ascii_case(SubSeq(tok, 1, 4), CVSS)

C2_PrefixErrors ==
    (Done /\ parser \in {"v3", "v4"}) =>
        /\ ~StartsWithCVSS(FirstToken) => result.kind = "InvalidPrefix"
        /\ (Colons(FirstToken) = 0 /\ ~eq_ignore_ascii_case(FirstToken, CVSS))
              => result.kind = "InvalidPrefix"
        /\ eq_ignore_ascii_case(FirstToken, CVSS) => result = InvalidVersion(FirstToken)

\* the bare token CVSS was parsed by v3.x or v4.0
C2_Witness ==
    /\ Done /\ parser \in {"v3", "v4"}
    /\ FirstToken = CVSS
    /\ result = InvalidVersion(CVSS)

\* C2 as stated: also the bare token CVSS fails with InvalidPrefix
C2_AsStated ==
    (Done /\ parser \in {"v3", "v4"}) =>
        ((~StartsWithCVSS(FirstToken) \/ Colons(FirstToken) = 0)
            => result.kind = "InvalidPrefix")

(***************************************************************************)
(* C3.  Every parser: a first token CVSS:<v> whose <v> is not a version    *)
(* the parser supports fails with InvalidVersion and yields no record.     *)
(* (The claim as stated; the v2.0 parser refutes it.)                      *)
(***************************************************************************)
VersionLiteral(tok) == SubSeq(tok, 6, Len(tok))

C3_UnsupportedVersion ==
    (Done /\ starts_with(FirstToken, CVSS \o <<":">>)
          /\ VersionLiteral(FirstToken) \notin SupportedVersions(parser))
    => (result.kind = "InvalidVersion" /\ cvss = NoRecord)


(***************************************************************************)
(* C4.  In all three parsers a non-empty metric segment with no colon or   *)
(* with two or more colons fails with InvalidComponent carrying the        *)
(* segment text, in v2.0 also when its key is not a recognised one; empty  *)
(* segments are ignored and never cause an error.                          *)
(***************************************************************************)
C4_ColonCount == (Done /\ PrefixAccepted) => ColonCountIn(Segments)

\* v2.0 met, after an empty segment, a two-colon segment with an unknown key
C4_Witness ==
    /\ Done /\ parser = "v2"
    /\ Segments = << <<>>, <<"Z","Z",":","N",":","L">> >>
    /\ result = InvalidComponent(<<"Z","Z",":","N",":","L">>)

(***************************************************************************)
(* C5.  A segment with one colon and an unrecognised key: the v2.0 parser  *)
(* skips it, leaving every slot unchanged and going on with the next       *)
(* segment; the v3.x and v4.0 parsers fail with UnknownMetric carrying the *)
(* upper-cased key.                                                        *)
(***************************************************************************)
C5_UnknownKey ==
    [][ ( /\ pc = "loop" /\ rest # <<>>
          /\ Colons(Head(rest)) = 1
          /\ ~Recognised(parser, KeyOf(Head(rest))) )
        => IF parser = "v2"
           THEN cvss' = cvss /\ rest' = Tail(rest) /\ pc' = "loop" /\ result' = Pending
           ELSE pc' = "done" /\ result' = UnknownMetric(KeyOf(Head(rest))) ]_vars

\* v2.0 skipped ZZ:N and went on to set the access vector
C5_Witness ==
    /\ Done /\ parser = "v2"
    /\ Segments = << <<"Z","Z",":","N">>, <<"A","V",":","N">> >>
    /\ result = Ok
    /\ cvss.access_vector = "Network"

(***************************************************************************)
(* C6.  First error wins: a prefix error is the result whatever the        *)
(* segments are; otherwise the result is the fault of the leftmost faulty  *)
(* segment (colon count, then key, then value) whatever follows it; and an *)
(* error never comes with a record.                                        *)
(***************************************************************************)
C6_FirstErrorWins ==
    Done =>
        /\ ~PrefixAccepted => result = ParsePrefix(parser, input).err
        /\ PrefixAccepted => LeftmostFaultIn(Segments)
        /\ result # Ok => cvss = NoRecord

\* v3.x had filled a slot, then met a two-colon segment with an unknown key,
\* followed by a segment with a bad value
C6_Witness ==
    /\ Done /\ parser = "v3"
    /\ Segments = << <<"A","V",":","N">>, <<"Z","Z",":","N",":","L">>,
                     <<"A","V",":","Z">> >>
    /\ result = InvalidComponent(<<"Z","Z",":","N",":","L">>)
    /\ cvss = NoRecord

(***************************************************************************)
(* C7.  No parser returns MissingRequiredMetric or DuplicateMetric: when   *)
(* no segment is faulty the parse succeeds, a slot holds the value of the  *)
(* last segment with its key and is absent when no segment has its key.    *)
(***************************************************************************)
C7_NoMissingNoDuplicate ==
    /\ result.kind \notin {"MissingRequiredMetric", "DuplicateMetric"}
    /\ (Done /\ PrefixAccepted) => LastWinsIn(Segments)

\* AV was given twice and no other base metric at all
C7_Witness ==
    /\ Done /\ parser = "v3"
    /\ Segments = << <<"A","V",":","N">>, <<"a","v",":","l">> >>
    /\ result = Ok
    /\ cvss.attack_vector = "Local"
    /\ cvss.attack_complexity = None

(***************************************************************************)
(* The v2.0 scoring specification: a CvssV2 record, as parsing or          *)
(* deserialisation leaves it, and the three public scoring methods called  *)
(* on it in any order.                                                     *)
(***************************************************************************)
V2BaseFields ==
    {"access_vector", "access_complexity", "authentication",
     "confidentiality_impact", "integrity_impact", "availability_impact"}

\* complete assignments of the base metrics
V2BaseProfiles ==
    [access_vector : {"Network", "AdjacentNetwork", "Local"},
     access_complexity : {"Low", "High"},
     authentication : {"None", "Multiple"},
     impacts : {<<"None", "None", "None">>, <<"Partial", "None", "None">>,
                <<"None", "Partial", "Complete">>, <<"Complete", "Complete", "Complete">>}]

\* assignments of the temporal and environmental metrics: all absent, all
\* NotDefined, absent and NotDefined mixed, a low requirement alone, and two
\* that are defined
V2OptionalProfiles ==
    { [exploitability |-> None, remediation_level |-> None, report_confidence |-> None,
       collateral_damage_potential |-> None, target_distribution |-> None,
       confidentiality_requirement |-> None, integrity_requirement |-> None,
       availability_requirement |-> None],
      [exploitability |-> "NotDefined", remediation_level |-> "NotDefined",
       report_confidence |-> "NotDefined", collateral_damage_potential |-> "NotDefined",
       target_distribution |-> "NotDefined", confidentiality_requirement |-> "NotDefined",
       integrity_requirement |-> "NotDefined", availability_requirement |-> "NotDefined"],
      [exploitability |-> "Unproven", remediation_level |-> "OfficialFix",
       report_confidence |-> "Unconfirmed", collateral_damage_potential |-> "High",
       target_distribution |-> "Low", confidentiality_requirement |-> "High",
       integrity_requirement |-> "Low", availability_requirement |-> "Medium"],
      [exploitability |-> "Functional", remediation_level |-> None,
       report_confidence |-> "Uncorroborated", collateral_damage_potential |-> None,
       target_distribution |-> "None", confidentiality_requirement |-> "Low",
       integrity_requirement |-> None, availability_requirement |-> "High"],
      [exploitability |-> "NotDefined", remediation_level |-> None,
       report_confidence |-> "NotDefined", collateral_damage_potential |-> None,
       target_distribution |-> "NotDefined", confidentiality_requirement |-> None,
       integrity_requirement |-> "NotDefined", availability_requirement |-> None],
      [exploitability |-> None, remediation_level |-> None, report_confidence |-> None,
       collateral_damage_potential |-> None, target_distribution |-> None,
       confidentiality_requirement |-> "Low", integrity_requirement |-> None,
       availability_requirement |-> None] }

\* the record with the base metrics of profile b, except the absent ones, and
\* the other metrics of profile o
V2Record(b, absent, o) ==
    LET base == [access_vector |-> b.access_vector,
                 access_complexity |-> b.access_complexity,
                 authentication |-> b.authentication,
                 confidentiality_impact |-> b.impacts[1],
                 integrity_impact |-> b.impacts[2],
                 availability_impact |-> b.impacts[3]]
    IN  [f \in V2BaseFields |-> IF f \in absent THEN None ELSE base[f]]
        @@ o @@ EmptyRecord("v2", <<>>)

V2Records ==
    {V2Record(b, absent, o) :
        b \in V2BaseProfiles, absent \in SUBSET V2BaseFields, o \in V2OptionalProfiles}

InitV2 ==
    /\ parser = "v2"
    /\ input = <<>>
    /\ pc = "done"
    /\ rest = <<>>
    /\ cvss \in V2Records
    /\ result = Ok
    /\ call = "none"
    /\ ret = NoneF

CallV2BaseScore ==
    /\ parser = "v2" /\ pc = "done" /\ result = Ok
    /\ call' = "calculated_base_score"
    /\ ret' = CvssV2_calculated_base_score(cvss)
    /\ UNCHANGED <<parser, input, pc, rest, cvss, result>>

CallV2TemporalScore ==
    /\ parser = "v2" /\ pc = "done" /\ result = Ok
    /\ call' = "calculated_temporal_score"
    /\ ret' = CvssV2_calculated_temporal_score(cvss)
    /\ UNCHANGED <<parser, input, pc, rest, cvss, result>>

\* a variant of CallV2EnvironmentalScore that stores the score it computed in
\* the record; C19_ScoringIsPureRead tells it from the code
CallV2EnvironmentalScore_StoresScore ==
    /\ parser = "v2" /\ pc = "done" /\ result = Ok
    /\ call' = "calculated_environmental_score"
    /\ ret' = CvssV2_calculated_environmental_score(cvss)
    /\ cvss' = [cvss EXCEPT
                  !.environmental_score = CvssV2_calculated_environmental_score(cvss)]
    /\ UNCHANGED <<parser, input, pc, rest, result>>

CallV2EnvironmentalScore ==
    /\ parser = "v2" /\ pc = "done" /\ result = Ok
    /\ call' = "calculated_environmental_score"
    /\ ret' = CvssV2_calculated_environmental_score(cvss)
    /\ UNCHANGED <<parser, input, pc, rest, cvss, result>>

NextV2 == CallV2BaseScore \/ CallV2TemporalScore \/ CallV2EnvironmentalScore

SpecV2 == InitV2 /\ [][NextV2]_vars

(***************************************************************************)
(* C8.  For a v2.0 record each of calculated_base_score,                   *)
(* calculated_temporal_score and calculated_environmental_score returns    *)
(* None exactly when one of the six base metrics is absent, whatever       *)
(* temporal and environmental metrics are absent; Some(0.0) is returned    *)
(* only when all six are present.                                          *)
(***************************************************************************)
V2ScoreCalls ==
    {"calculated_base_score", "calculated_temporal_score", "calculated_environmental_score"}

V2BaseComplete == \A f \in V2BaseFields : cvss[f] # None

V2OptionalFields ==
    {"exploitability", "remediation_level", "report_confidence",
     "collateral_damage_potential", "target_distribution",
     "confidentiality_requirement", "integrity_requirement", "availability_requirement"}

C8_V2Unavailable ==
    call \in V2ScoreCalls =>
        /\ (ret = NoneF) <=> ~V2BaseComplete
        /\ ret.some <=> V2BaseComplete
        /\ ret = SomeF(FZero) => V2BaseComplete

\* the environmental score of a record with the six base metrics and nothing else
C8_Witness ==
    /\ call = "calculated_environmental_score"
    /\ V2BaseComplete
    /\ \A f \in V2OptionalFields : cvss[f] = None
    /\ ret.some

(***************************************************************************)
(* CVSS v4.0 scoring: v4_0/scoring.rs.  The module v4_0::lookup and the     *)
(* type SubsequentImpact, which scoring.rs uses, are not part of the        *)
(* sources; they are taken from the specification, which defers to the     *)
(* tables of the CVSS v4.0 standard: the score of each macro vector, the   *)
(* highest-severity vectors of each equivalence class, and the depth of    *)
(* each class.                                                             *)
(***************************************************************************)
\* the subsequent-system impact: Impact with the added Safety tier
V4SubsequentImpact ==
    << <<<<"S">>, "Safety">>,
       <<<<"H">>, "High">>,
       <<<<"L">>, "Low">>,
       <<<<"N">>, "None">> >>

\* the score of macro vector (eq1, ..., eq6), in tenths, at
\* [eq1 + 1][eq2 + 1][eq3 + 1][eq4 + 1][eq5 + 1][eq6 + 1]; -1 where the table
\* of the standard has no entry
LookupTenths ==
  <<
   <<
    <<
       <<<<<<100, 99>>, <<98, 95>>, <<95, 92>>>>, <<<<100, 96>>, <<93, 87>>, <<91, 81>>>>, <<<<93, 90>>, <<89, 80>>, <<81, 68>>>>>>,
       <<<<<<98, 95>>, <<95, 92>>, <<90, 84>>>>, <<<<93, 92>>, <<89, 81>>, <<81, 65>>>>, <<<<88, 80>>, <<78, 70>>, <<69, 48>>>>>>,
       <<<<<<-1, 92>>, <<-1, 82>>, <<-1, 72>>>>, <<<<-1, 79>>, <<-1, 69>>, <<-1, 50>>>>, <<<<-1, 69>>, <<-1, 55>>, <<-1, 27>>>>>> >>,
    <<
       <<<<<<99, 97>>, <<95, 92>>, <<92, 85>>>>, <<<<95, 91>>, <<90, 83>>, <<84, 71>>>>, <<<<92, 81>>, <<82, 71>>, <<72, 53>>>>>>,
       <<<<<<95, 93>>, <<92, 85>>, <<85, 73>>>>, <<<<92, 82>>, <<80, 72>>, <<70, 59>>>>, <<<<84, 70>>, <<71, 52>>, <<50, 30>>>>>>,
       <<<<<<-1, 86>>, <<-1, 75>>, <<-1, 52>>>>, <<<<-1, 71>>, <<-1, 52>>, <<-1, 29>>>>, <<<<-1, 63>>, <<-1, 29>>, <<-1, 17>>>>>> >> >>,
   <<
    <<
       <<<<<<98, 95>>, <<94, 87>>, <<91, 81>>>>, <<<<94, 89>>, <<86, 74>>, <<77, 64>>>>, <<<<87, 75>>, <<74, 63>>, <<63, 49>>>>>>,
       <<<<<<94, 89>>, <<88, 77>>, <<76, 67>>>>, <<<<86, 76>>, <<74, 58>>, <<59, 50>>>>, <<<<72, 57>>, <<57, 52>>, <<52, 25>>>>>>,
       <<<<<<-1, 83>>, <<-1, 70>>, <<-1, 54>>>>, <<<<-1, 65>>, <<-1, 58>>, <<-1, 26>>>>, <<<<-1, 53>>, <<-1, 21>>, <<-1, 13>>>>>> >>,
    <<
       <<<<<<95, 90>>, <<88, 76>>, <<76, 70>>>>, <<<<90, 77>>, <<75, 62>>, <<61, 53>>>>, <<<<77, 66>>, <<68, 59>>, <<52, 30>>>>>>,
       <<<<<<89, 78>>, <<76, 67>>, <<62, 58>>>>, <<<<74, 59>>, <<57, 57>>, <<47, 23>>>>, <<<<61, 52>>, <<57, 29>>, <<24, 16>>>>>>,
       <<<<<<-1, 71>>, <<-1, 59>>, <<-1, 30>>>>, <<<<-1, 58>>, <<-1, 26>>, <<-1, 15>>>>, <<<<-1, 23>>, <<-1, 13>>, <<-1, 6>>>>>> >> >>,
   <<
    <<
       <<<<<<93, 87>>, <<86, 72>>, <<75, 58>>>>, <<<<86, 74>>, <<74, 61>>, <<56, 34>>>>, <<<<70, 54>>, <<52, 40>>, <<40, 22>>>>>>,
       <<<<<<85, 75>>, <<74, 55>>, <<62, 51>>>>, <<<<72, 57>>, <<55, 41>>, <<46, 19>>>>, <<<<53, 36>>, <<34, 19>>, <<19, 8>>>>>>,
       <<<<<<-1, 64>>, <<-1, 51>>, <<-1, 20>>>>, <<<<-1, 47>>, <<-1, 21>>, <<-1, 11>>>>, <<<<-1, 24>>, <<-1, 9>>, <<-1, 4>>>>>> >>,
    <<
       <<<<<<88, 75>>, <<73, 53>>, <<60, 50>>>>, <<<<73, 55>>, <<59, 40>>, <<41, 20>>>>, <<<<54, 43>>, <<45, 22>>, <<20, 11>>>>>>,
       <<<<<<75, 55>>, <<58, 45>>, <<40, 21>>>>, <<<<61, 51>>, <<48, 18>>, <<20, 9>>>>, <<<<46, 18>>, <<17, 7>>, <<8, 2>>>>>>,
       <<<<<<-1, 53>>, <<-1, 24>>, <<-1, 14>>>>, <<<<-1, 24>>, <<-1, 12>>, <<-1, 5>>>>, <<<<-1, 10>>, <<-1, 3>>, <<-1, 1>>>>>> >> >> >>

\* a table entry as the f64 literal t/10, None for a missing one
LookupEntry(t) == IF t >= 0 THEN SomeF(Dec(t, 10)) ELSE NoneF

\* lookup_global: the table entry of the macro vector, None where it has none
lookup_global(mv) ==
    IF /\ mv.eq1 \in 0..2 /\ mv.eq2 \in 0..1 /\ mv.eq3 \in 0..2
       /\ mv.eq4 \in 0..2 /\ mv.eq5 \in 0..2 /\ mv.eq6 \in 0..1
    THEN LookupEntry(
             LookupTenths[mv.eq1 + 1][mv.eq2 + 1][mv.eq3 + 1][mv.eq4 + 1][mv.eq5 + 1][mv.eq6 + 1])
    ELSE NoneF

\* VectorEq
Eq1(a) == [class |-> "Eq1", a |-> a, b |-> 0]
Eq2(a) == [class |-> "Eq2", a |-> a, b |-> 0]
Eq3Eq6(a, b) == [class |-> "Eq3Eq6", a |-> a, b |-> b]
Eq4(a) == [class |-> "Eq4", a |-> a, b |-> 0]
Eq5(a) == [class |-> "Eq5", a |-> a, b |-> 0]

\* max_composed: the highest-severity vectors of a class, as fragments of
\* vector strings
MaxComposedEq1 ==
    << <<<<"A","V",":","N","/","P","R",":","N","/","U","I",":","N","/">>>>,
       <<<<"A","V",":","A","/","P","R",":","N","/","U","I",":","N","/">>,
          <<"A","V",":","N","/","P","R",":","L","/","U","I",":","N","/">>,
          <<"A","V",":","N","/","P","R",":","N","/","U","I",":","P","/">>>>,
       <<<<"A","V",":","P","/","P","R",":","N","/","U","I",":","N","/">>,
          <<"A","V",":","A","/","P","R",":","L","/","U","I",":","P","/">>>> >>

MaxComposedEq2 ==
    << <<<<"A","C",":","L","/","A","T",":","N","/">>>>,
       <<<<"A","C",":","H","/","A","T",":","N","/">>,
          <<"A","C",":","L","/","A","T",":","P","/">>>> >>

\* at [eq3 + 1][eq6 + 1]
MaxComposedEq3Eq6 ==
    << << <<<<"V","C",":","H","/","V","I",":","H","/","V","A",":","H","/","C","R",":","H","/","I","R",":","H","/","A","R",":","H","/">>>>,
          <<<<"V","C",":","H","/","V","I",":","H","/","V","A",":","L","/","C","R",":","M","/","I","R",":","M","/","A","R",":","H","/">>,
             <<"V","C",":","H","/","V","I",":","H","/","V","A",":","H","/","C","R",":","M","/","I","R",":","M","/","A","R",":","M","/">>>> >>,
       << <<<<"V","C",":","L","/","V","I",":","H","/","V","A",":","H","/","C","R",":","H","/","I","R",":","H","/","A","R",":","H","/">>,
             <<"V","C",":","H","/","V","I",":","L","/","V","A",":","H","/","C","R",":","H","/","I","R",":","H","/","A","R",":","H","/">>>>,
          <<<<"V","C",":","L","/","V","I",":","H","/","V","A",":","L","/","C","R",":","H","/","I","R",":","M","/","A","R",":","H","/">>,
             <<"V","C",":","L","/","V","I",":","H","/","V","A",":","H","/","C","R",":","H","/","I","R",":","M","/","A","R",":","M","/">>,
             <<"V","C",":","H","/","V","I",":","L","/","V","A",":","H","/","C","R",":","M","/","I","R",":","H","/","A","R",":","M","/">>,
             <<"V","C",":","H","/","V","I",":","L","/","V","A",":","L","/","C","R",":","M","/","I","R",":","H","/","A","R",":","H","/">>,
             <<"V","C",":","L","/","V","I",":","L","/","V","A",":","H","/","C","R",":","H","/","I","R",":","H","/","A","R",":","M","/">>>> >>,
       << <<>>,
          <<<<"V","C",":","L","/","V","I",":","L","/","V","A",":","L","/","C","R",":","H","/","I","R",":","H","/","A","R",":","H","/">>>> >> >>

MaxComposedEq4 ==
    << <<<<"S","C",":","H","/","S","I",":","S","/","S","A",":","S","/">>>>,
       <<<<"S","C",":","H","/","S","I",":","H","/","S","A",":","H","/">>>>,
       <<<<"S","C",":","L","/","S","I",":","L","/","S","A",":","L","/">>>> >>

MaxComposedEq5 ==
    << <<<<"E",":","A","/">>>>,
       <<<<"E",":","P","/">>>>,
       <<<<"E",":","U","/">>>> >>

max_composed(eq) ==
    CASE eq.class = "Eq1" -> IF eq.a \in 0..2 THEN MaxComposedEq1[eq.a + 1] ELSE <<>>
      [] eq.class = "Eq2" -> IF eq.a \in 0..1 THEN MaxComposedEq2[eq.a + 1] ELSE <<>>
      [] eq.class = "Eq3Eq6" -> IF eq.a \in 0..2 /\ eq.b \in 0..1
                                THEN MaxComposedEq3Eq6[eq.a + 1][eq.b + 1] ELSE <<>>
      [] eq.class = "Eq4" -> IF eq.a \in 0..2 THEN MaxComposedEq4[eq.a + 1] ELSE <<>>
      [] eq.class = "Eq5" -> IF eq.a \in 0..2 THEN MaxComposedEq5[eq.a + 1] ELSE <<>>

\* max_severity: the depth of a class, in steps
MaxSeverityEq1 == <<1, 4, 5>>
MaxSeverityEq2 == <<1, 2>>
MaxSeverityEq3Eq6 == <<<<7, 6>>, <<8, 8>>, <<0, 10>>>>
MaxSeverityEq4 == <<6, 5, 4>>
MaxSeverityEq5 == <<1, 1, 1>>

max_severity(eq) ==
    CASE eq.class = "Eq1" -> MaxSeverityEq1[eq.a + 1]
      [] eq.class = "Eq2" -> MaxSeverityEq2[eq.a + 1]
      [] eq.class = "Eq3Eq6" -> MaxSeverityEq3Eq6[eq.a + 1][eq.b + 1]
      [] eq.class = "Eq4" -> MaxSeverityEq4[eq.a + 1]
      [] eq.class = "Eq5" -> MaxSeverityEq5[eq.a + 1]


\* level(): the severity ordinal of each variant.  The ordinals, their
\* differences and the sums of the differences are whole numbers of small
\* magnitude, on which f64 arithmetic is exact; they are carried as integers
\* and converted where the code divides
V4AttackVectorLevel == [Network |-> 0, Adjacent |-> 1, Local |-> 2, Physical |-> 3]
V4AttackComplexityLevel == [Low |-> 0, High |-> 1]
V4AttackRequirementsLevel == [None |-> 0, Present |-> 1]
V4PrivilegesRequiredLevel == [None |-> 0, Low |-> 1, High |-> 2]
V4UserInteractionLevel == [None |-> 0, Passive |-> 1, Active |-> 2]
V4ImpactLevel == [High |-> 0, Low |-> 1, None |-> 2]
V4RequirementLevel == [High |-> 0, Medium |-> 1, Low |-> 2]
\* SubsequentImpact::level, of the type the sources lack
V4SubsequentImpactLevel == [Safety |-> 0, High |-> 1, Low |-> 2, None |-> 3]

\* MacroVector
MacroVector(a1, a2, a3, a4, a5, a6) ==
    [eq1 |-> a1, eq2 |-> a2, eq3 |-> a3, eq4 |-> a4, eq5 |-> a5, eq6 |-> a6]

incr_eq1(mv) == [mv EXCEPT !.eq1 = mv.eq1 + 1]
incr_eq2(mv) == [mv EXCEPT !.eq2 = mv.eq2 + 1]
incr_eq3(mv) == [mv EXCEPT !.eq3 = mv.eq3 + 1]
incr_eq4(mv) == [mv EXCEPT !.eq4 = mv.eq4 + 1]
incr_eq5(mv) == [mv EXCEPT !.eq5 = mv.eq5 + 1]
incr_eq6(mv) == [mv EXCEPT !.eq6 = mv.eq6 + 1]

\* Option::unwrap_or
unwrap_or(opt, default) == IF opt = None THEN default ELSE opt

merge_av(base, modified) == unwrap_or(modified, base)
merge_ac(base, modified) == unwrap_or(modified, base)
merge_at(base, modified) == unwrap_or(modified, base)
merge_pr(base, modified) == unwrap_or(modified, base)
merge_ui(base, modified) == unwrap_or(modified, base)
merge_impact(base, modified) == unwrap_or(modified, base)
merge_subsequent_impact(base, modified) == unwrap_or(modified, base)

\* a variant of merge_exploit_maturity that defaults only the absent slot
merge_exploit_maturity_KeepsNotDefined(e) ==
    IF e = None THEN "Attacked" ELSE e

merge_exploit_maturity(e) ==
    IF e = "NotDefined" \/ e = None THEN "Attacked" ELSE e

\* a variant of merge_requirement that defaults to Medium;
\* C21_EffectiveValues tells it from the code
merge_requirement_Medium(r) == unwrap_or(r, "Medium")

merge_requirement(r) == unwrap_or(r, "High")

eq1(av, pr, ui) ==
    IF av = "Network" /\ pr = "None" /\ ui = "None" THEN 0
    ELSE IF (av = "Network" \/ pr = "None" \/ ui = "None") /\ av # "Physical" THEN 1
    ELSE 2

eq2(ac, at) == IF ac = "Low" /\ at = "None" THEN 0 ELSE 1

\* a variant of eq3 that wants all three impacts High for 0;
\* C23_Eq3Eq6 tells it from the code
eq3_AllThree(vc, vi, va) ==
    IF vc = "High" /\ vi = "High" /\ va = "High" THEN 0
    ELSE IF vc = "High" \/ vi = "High" \/ va = "High" THEN 1
    ELSE 2

eq3(vc, vi, va) ==
    IF vc = "High" /\ vi = "High" THEN 0
    ELSE IF vc = "High" \/ vi = "High" \/ va = "High" THEN 1
    ELSE 2

\* a variant of eq4 that tests High before Safety; C22_Eq1Eq2Eq4Eq5 tells it
\* from the code
eq4_HighFirst(sc, si, sa) ==
    IF sc = "High" \/ si = "High" \/ sa = "High" THEN 1
    ELSE IF sc = "Safety" \/ si = "Safety" \/ sa = "Safety" THEN 0
    ELSE 2

eq4(sc, si, sa) ==
    IF sc = "Safety" \/ si = "Safety" \/ sa = "Safety" THEN 0
    ELSE IF sc = "High" \/ si = "High" \/ sa = "High" THEN 1
    ELSE 2

eq5(e) ==
    CASE e = "Attacked" -> 0
      [] e = "ProofOfConcept" -> 1
      [] e \in {"Unreported", "NotDefined"} -> 2

\* a variant of eq6 that looks at the requirements alone;
\* C28_Eq3Eq6Pairs tells it from the code
eq6_RequirementsOnly(cr, vc, ir, vi, ar, va) ==
    IF cr = "High" \/ ir = "High" \/ ar = "High" THEN 0 ELSE 1

eq6(cr, vc, ir, vi, ar, va) ==
    IF \/ cr = "High" /\ vc = "High"
       \/ ir = "High" /\ vi = "High"
       \/ ar = "High" /\ va = "High"
    THEN 0 ELSE 1

\* str::trim_end_matches
trim_end_matches(s, c) ==
    LET n == CHOOSE k \in 0..Len(s) :
                 /\ k = 0 \/ s[k] # c
                 /\ \A j \in (k + 1)..Len(s) : s[j] = c
    IN  SubSeq(s, 1, n)

\* the arms of parse_max_vector's match: <<key, field of MaxVectorMetrics,
\* enum the value is parsed as, level of the enum>>
MaxVectorKeys ==
    << <<<<"A","V">>, "av", V4AttackVector, V4AttackVectorLevel>>,
       <<<<"A","C">>, "ac", V4AttackComplexity, V4AttackComplexityLevel>>,
       <<<<"A","T">>, "at", V4AttackRequirements, V4AttackRequirementsLevel>>,
       <<<<"P","R">>, "pr", V4PrivilegesRequired, V4PrivilegesRequiredLevel>>,
       <<<<"U","I">>, "ui", V4UserInteraction, V4UserInteractionLevel>>,
       <<<<"V","C">>, "vc", V4Impact, V4ImpactLevel>>,
       <<<<"V","I">>, "vi", V4Impact, V4ImpactLevel>>,
       <<<<"V","A">>, "va", V4Impact, V4ImpactLevel>>,
       <<<<"S","C">>, "sc", V4SubsequentImpact, V4SubsequentImpactLevel>>,
       <<<<"S","I">>, "si", V4SubsequentImpact, V4SubsequentImpactLevel>>,
       <<<<"S","A">>, "sa", V4SubsequentImpact, V4SubsequentImpactLevel>>,
       <<<<"C","R">>, "cr", V4Requirement, V4RequirementLevel>>,
       <<<<"I","R">>, "ir", V4Requirement, V4RequirementLevel>>,
       <<<<"A","R">>, "ar", V4Requirement, V4RequirementLevel>> >>

MaxVectorFields == {MaxVectorKeys[i][2] : i \in 1..Len(MaxVectorKeys)}

\* the defaults parse_max_vector starts from
MaxVectorDefaults ==
    [av |-> "Network", ac |-> "Low", at |-> "None", pr |-> "None", ui |-> "None",
     vc |-> "None", vi |-> "None", va |-> "None",
     sc |-> "None", si |-> "None", sa |-> "None",
     cr |-> "Medium", ir |-> "Medium", ar |-> "Medium"]

\* Option<MaxVectorMetrics>
NoMetrics == [ok |-> FALSE, v |-> MaxVectorDefaults]

RECURSIVE ParseMaxVectorLoop(_, _, _)

\* the arm of a recognised key: the parsed value is stored, a value that does
\* not parse ends the parse
ParseMaxVectorArm(components, i, metrics, field, parsed) ==
    IF parsed.ok
    THEN ParseMaxVectorLoop(components, i + 1, [metrics EXCEPT ![field] = parsed.v])
    ELSE NoMetrics

\* the match on the key: arm k of MaxVectorKeys, or 0 for `_ => {}`
ParseMaxVectorMatch(components, i, metrics, k, value) ==
    IF k = 0 THEN ParseMaxVectorLoop(components, i + 1, metrics)
    ELSE ParseMaxVectorArm(components, i, metrics, MaxVectorKeys[k][2],
                           EnumFromStr(MaxVectorKeys[k][3], value))

\* the index of the arm that matches the key, 0 if none does
MaxVectorArm(key) ==
    IF \E k \in 1..Len(MaxVectorKeys) : MaxVectorKeys[k][1] = key
    THEN CHOOSE k \in 1..Len(MaxVectorKeys) : MaxVectorKeys[k][1] = key
    ELSE 0

\* one component split on ':'
ParseMaxVectorParts(components, i, metrics, parts) ==
    IF Len(parts) < 2 THEN NoMetrics
    ELSE ParseMaxVectorMatch(components, i, metrics,
                             MaxVectorArm(to_ascii_uppercase(parts[1])),
                             to_ascii_uppercase(parts[2]))

\* the loop of parse_max_vector over the components from the i-th on
ParseMaxVectorLoop(components, i, metrics) ==
    IF i > Len(components) THEN [ok |-> TRUE, v |-> metrics]
    ELSE ParseMaxVectorParts(components, i, metrics, split(components[i], ":"))

parse_max_vector(s) ==
    ParseMaxVectorLoop(split(trim_end_matches(s, "/"), "/"), 1, MaxVectorDefaults)

\* the level of the variant a metric of MaxVectorMetrics holds
MetricLevel(field, variant) ==
    MaxVectorKeys[CHOOSE k \in 1..Len(MaxVectorKeys) : MaxVectorKeys[k][2] = field][4][variant]

\* the severity distances of the merged metrics from a max vector
SeverityDistances(metrics, max_vector_metrics) ==
    [f \in MaxVectorFields |->
        MetricLevel(f, metrics[f]) - MetricLevel(f, max_vector_metrics[f])]

RECURSIVE FindMaxVector(_, _, _, _)

\* a variant of FindMaxVectorAt that takes the first vector whatever its
\* distances; C26_FirstFittingBoundary tells it from the code
FindMaxVectorAt_TakesFirst(metrics, max_vectors, i, d) == [ok |-> TRUE, d |-> d]

\* d is the distances from the i-th vector: the search ends if none is negative
FindMaxVectorAt(metrics, max_vectors, i, d) ==
    IF \E f \in MaxVectorFields : d[f] < 0
    THEN FindMaxVector(metrics, max_vectors, i + 1, d)
    ELSE [ok |-> TRUE, d |-> d]

\* max_vector_metrics is the i-th vector parsed
FindMaxVectorParsed(metrics, max_vectors, i, distances, max_vector_metrics) ==
    IF ~max_vector_metrics.ok THEN [ok |-> FALSE, d |-> distances]
    ELSE FindMaxVectorAt(metrics, max_vectors, i,
                         SeverityDistances(metrics, max_vector_metrics.v))

\* the loop that finds the max vector, from the i-th composed vector on: the
\* distances from the first vector none of whose distances is negative, else
\* from the last vector; nothing once a vector does not parse
FindMaxVector(metrics, max_vectors, i, distances) ==
    IF i > Len(max_vectors) THEN [ok |-> TRUE, d |-> distances]
    ELSE FindMaxVectorParsed(metrics, max_vectors, i, distances,
                             parse_max_vector(max_vectors[i]))

\* the nested loops that compose the max vectors: every a followed by every b,
\* the a outermost
Compose(as, bs) ==
    [k \in 1..(Len(as) * Len(bs)) |->
        as[((k - 1) \div Len(bs)) + 1] \o bs[((k - 1) % Len(bs)) + 1]]

ComposedMaxVectors(macro_vector) ==
    Compose(Compose(Compose(Compose(max_composed(Eq1(macro_vector.eq1)),
                                    max_composed(Eq2(macro_vector.eq2))),
                            max_composed(Eq3Eq6(macro_vector.eq3, macro_vector.eq6))),
                    max_composed(Eq4(macro_vector.eq4))),
            max_composed(Eq5(macro_vector.eq5)))

\* left > right on Option<f64>: None is below every Some
OptionGreater(left, right) ==
    IF left.some /\ right.some THEN FLess(right.v, left.v)
    ELSE left.some /\ ~right.some

\* if left > right { left } else { right }
OptionMax(left, right) == IF OptionGreater(left, right) THEN left ELSE right

\* a variant of ScoreEq3Eq6NextLower that increments EQ3 wherever it is;
\* C25_NextLowerScores tells it from the code
ScoreEq3Eq6NextLower_AlwaysEq3(macro_vector) ==
    lookup_global(incr_eq3(macro_vector))

\* score_eq3eq6_next_lower
ScoreEq3Eq6NextLower(macro_vector) ==
    IF macro_vector.eq3 \in {0, 1} /\ macro_vector.eq6 = 1
    THEN lookup_global(incr_eq3(macro_vector))
    ELSE IF macro_vector.eq3 = 1 /\ macro_vector.eq6 = 0
    THEN lookup_global(incr_eq6(macro_vector))
    ELSE IF macro_vector.eq3 = 0 /\ macro_vector.eq6 = 0
    THEN OptionMax(lookup_global(incr_eq6(macro_vector)),
                   lookup_global(incr_eq3(macro_vector)))
    ELSE lookup_global(incr_eq3(macro_vector))

step == Dec(1, 10)

\* score_next_lower.map(|v| value - v)
AvailableDistance(value, score_next_lower) ==
    IF score_next_lower.some THEN SomeF(FSub(value, score_next_lower.v)) ELSE NoneF

\* normalized_severity_eq*: the available distance times the proportion of the
\* class's depth the current distance covers
NormalizedSeverity(available_distance, current_severity_distance, max_severity_eq) ==
    IF available_distance.some
    THEN FMul(available_distance.v,
              FDiv(FOfInt(current_severity_distance), max_severity_eq))
    ELSE FZero

\* max_severity(..) as f64 * step
MaxSeverityStep(eq) == FMul(FOfInt(max_severity(eq)), step)

\* n_existing_lower: how many of the five available distances exist
ExistingLower(a1, a2, a3, a4, a5) ==
    Cardinality({k \in 1..5 : <<a1, a2, a3, a4, a5>>[k].some})

\* a variant of MeanDistance that averages over all five dimensions;
\* C27_MeanDistance tells it from the code
MeanDistance_OverFive(n_existing_lower, n1, n2, n3, n4, n5) ==
    IF n_existing_lower = 0 THEN FZero
    ELSE FDiv(FAdd(FAdd(FAdd(FAdd(n1, n2), n3), n4), n5), FOfInt(5))

\* mean_distance of the five normalized severities
MeanDistance(n_existing_lower, n1, n2, n3, n4, n5) ==
    IF n_existing_lower = 0 THEN FZero
    ELSE FDiv(FAdd(FAdd(FAdd(FAdd(n1, n2), n3), n4), n5), FOfInt(n_existing_lower))

\* value - mean_distance, from the severity distances d and the available
\* distances of the five classes; normalized_severity_eq5 is 0.0
InterpolateFrom(macro_vector, value, d, a1, a2, a3, a4, a5) ==
    FSub(value,
         MeanDistance(
             ExistingLower(a1, a2, a3, a4, a5),
             NormalizedSeverity(a1, d.av + d.pr + d.ui,
                                MaxSeverityStep(Eq1(macro_vector.eq1))),
             NormalizedSeverity(a2, d.ac + d.at,
                                MaxSeverityStep(Eq2(macro_vector.eq2))),
             NormalizedSeverity(a3, d.vc + d.vi + d.va + d.cr + d.ir + d.ar,
                                MaxSeverityStep(Eq3Eq6(macro_vector.eq3, macro_vector.eq6))),
             NormalizedSeverity(a4, d.sc + d.si + d.sa,
                                MaxSeverityStep(Eq4(macro_vector.eq4))),
             FZero))

\* found is what the search for the max vector gave
InterpolateFound(macro_vector, value, found) ==
    IF found.ok
    THEN SomeF(InterpolateFrom(
             macro_vector, value, found.d,
             AvailableDistance(value, lookup_global(incr_eq1(macro_vector))),
             AvailableDistance(value, lookup_global(incr_eq2(macro_vector))),
             AvailableDistance(value, ScoreEq3Eq6NextLower(macro_vector)),
             AvailableDistance(value, lookup_global(incr_eq4(macro_vector))),
             AvailableDistance(value, lookup_global(incr_eq5(macro_vector)))))
    ELSE NoneF

\* calculate_score_internal from the lookup on: value is the macro vector's
\* score, metrics the merged metrics
Interpolate(macro_vector, value, metrics) ==
    InterpolateFound(macro_vector, value,
                     FindMaxVector(metrics, ComposedMaxVectors(macro_vector), 1,
                                   [f \in MaxVectorFields |-> 0]))

V4BaseFields ==
    {"attack_vector", "attack_complexity", "attack_requirements", "privileges_required",
     "user_interaction", "vuln_confidentiality_impact", "vuln_integrity_impact",
     "vuln_availability_impact", "sub_confidentiality_impact", "sub_integrity_impact",
     "sub_availability_impact"}

\* a variant of MergedMetrics that takes the six impacts from the base metrics
\* alone; C11_NoImpactIsZero tells it from the code
MergedMetrics_BaseImpacts(cvss_, include_threat_metrics) ==
    [av |-> merge_av(cvss_.attack_vector, cvss_.modified_attack_vector),
     ac |-> merge_ac(cvss_.attack_complexity, cvss_.modified_attack_complexity),
     at |-> merge_at(cvss_.attack_requirements, cvss_.modified_attack_requirements),
     pr |-> merge_pr(cvss_.privileges_required, cvss_.modified_privileges_required),
     ui |-> merge_ui(cvss_.user_interaction, cvss_.modified_user_interaction),
     vc |-> cvss_.vuln_confidentiality_impact,
     vi |-> cvss_.vuln_integrity_impact,
     va |-> cvss_.vuln_availability_impact,
     sc |-> cvss_.sub_confidentiality_impact,
     si |-> cvss_.sub_integrity_impact,
     sa |-> cvss_.sub_availability_impact,
     e |-> IF include_threat_metrics THEN merge_exploit_maturity(cvss_.exploit_maturity)
           ELSE "Attacked",
     cr |-> merge_requirement(cvss_.confidentiality_requirement),
     ir |-> merge_requirement(cvss_.integrity_requirement),
     ar |-> merge_requirement(cvss_.availability_requirement)]

\* the merged metrics of a record that has the eleven base metrics
MergedMetrics(cvss_, include_threat_metrics) ==
    [av |-> merge_av(cvss_.attack_vector, cvss_.modified_attack_vector),
     ac |-> merge_ac(cvss_.attack_complexity, cvss_.modified_attack_complexity),
     at |-> merge_at(cvss_.attack_requirements, cvss_.modified_attack_requirements),
     pr |-> merge_pr(cvss_.privileges_required, cvss_.modified_privileges_required),
     ui |-> merge_ui(cvss_.user_interaction, cvss_.modified_user_interaction),
     vc |-> merge_impact(cvss_.vuln_confidentiality_impact,
                         cvss_.modified_vuln_confidentiality_impact),
     vi |-> merge_impact(cvss_.vuln_integrity_impact, cvss_.modified_vuln_integrity_impact),
     va |-> merge_impact(cvss_.vuln_availability_impact,
                         cvss_.modified_vuln_availability_impact),
     sc |-> merge_subsequent_impact(cvss_.sub_confidentiality_impact,
                                    cvss_.modified_sub_confidentiality_impact),
     si |-> merge_subsequent_impact(cvss_.sub_integrity_impact,
                                    cvss_.modified_sub_integrity_impact),
     sa |-> merge_subsequent_impact(cvss_.sub_availability_impact,
                                    cvss_.modified_sub_availability_impact),
     e |-> IF include_threat_metrics THEN merge_exploit_maturity(cvss_.exploit_maturity)
           ELSE "Attacked",
     cr |-> merge_requirement(cvss_.confidentiality_requirement),
     ir |-> merge_requirement(cvss_.integrity_requirement),
     ar |-> merge_requirement(cvss_.availability_requirement)]

\* let macro_vector = MacroVector::new(eq1(..), .., eq6(..))
MacroVectorOf(m) ==
    MacroVector(eq1(m.av, m.pr, m.ui), eq2(m.ac, m.at), eq3(m.vc, m.vi, m.va),
                eq4(m.sc, m.si, m.sa), eq5(m.e), eq6(m.cr, m.vc, m.ir, m.vi, m.ar, m.va))

\* a variant of ScoreOfLookup that scores a macro vector without a table
\* entry as 0.0; C24_MissingEntryIsNone tells it from the code
ScoreOfLookup_DefaultsToZero(macro_vector, value, m) ==
    IF value.some THEN Interpolate(macro_vector, value.v, m) ELSE SomeF(FZero)

\* let mut value = lookup_global(&macro_vector)?; and the interpolation
ScoreOfLookup(macro_vector, value, m) ==
    IF value.some THEN Interpolate(macro_vector, value.v, m) ELSE NoneF

ScoreOfMacroVector(macro_vector, m) ==
    ScoreOfLookup(macro_vector, lookup_global(macro_vector), m)

\* the score of the merged metrics m: 0.0 if there is no impact at all
ScoreOfMetrics(m) ==
    IF /\ m.vc = "None" /\ m.vi = "None" /\ m.va = "None"
       /\ m.sc = "None" /\ m.si = "None" /\ m.sa = "None"
    THEN SomeF(FZero)
    ELSE ScoreOfMacroVector(MacroVectorOf(m), m)

calculate_score_internal(cvss_, include_threat_metrics) ==
    IF \E f \in V4BaseFields : cvss_[f] = None THEN NoneF
    ELSE ScoreOfMetrics(MergedMetrics(cvss_, include_threat_metrics))

\* scoring.rs: the full score and the base score
calculate_score(cvss_) == calculate_score_internal(cvss_, TRUE)

calculate_base_score(cvss_) == calculate_score_internal(cvss_, FALSE)

\* CvssV4::calculated_base_score, the method of the record
CvssV4_calculated_base_score(self) == NoneF

\* score.rs: const EPSILON: f64 = 10e-6
EPSILON == Dec(1, 100000)

\* score.rs: round_v4, which no entry point of scoring.rs calls
round_v4(value) ==
    FDiv(FRound(FMul(FAdd(FClamp(value, FZero, FOfInt(10)), EPSILON), FOfInt(10))),
         FOfInt(10))

(***************************************************************************)
(* The v4.0 score entry points on records: the method of the record        *)
(* (v4_0/mod.rs) and the two functions of v4_0/scoring.rs.                 *)
(***************************************************************************)
\* complete assignments of the base metrics: <<AV, PR, UI>>, <<AC, AT>> and
\* <<VC, VI, VA, SC, SI, SA>>
V4BaseProfiles ==
    [exploitation : {<<"Network", "None", "None">>, <<"Adjacent", "Low", "None">>,
                     <<"Physical", "High", "Active">>},
     complexity : {<<"Low", "None">>, <<"High", "Present">>},
     impacts : {<<"None", "None", "None", "None", "None", "None">>,
                <<"High", "High", "High", "High", "High", "High">>,
                <<"None", "Low", "None", "None", "None", "None">>,
                <<"Low", "High", "Low", "Low", "Safety", "None">>}]

\* the states of the Exploit Maturity slot
V4ExploitMaturitySlots == {None, "NotDefined", "Attacked", "ProofOfConcept", "Unreported"}

\* assignments of the environmental metrics the score reads: none, and some
V4NoEnvironment ==
    [confidentiality_requirement |-> None, integrity_requirement |-> None,
     availability_requirement |-> None, modified_attack_vector |-> None,
     modified_vuln_confidentiality_impact |-> None]

V4SomeEnvironment ==
    [confidentiality_requirement |-> "Low", integrity_requirement |-> "Medium",
     availability_requirement |-> None, modified_attack_vector |-> "Local",
     modified_vuln_confidentiality_impact |-> "High"]

\* every modified impact set to None (MVC:N/MVI:N/MVA:N/MSC:N/MSI:N/MSA:N)
V4ModifiedNoImpact ==
    [modified_vuln_confidentiality_impact |-> "None",
     modified_vuln_integrity_impact |-> "None",
     modified_vuln_availability_impact |-> "None",
     modified_sub_confidentiality_impact |-> "None",
     modified_sub_integrity_impact |-> "None",
     modified_sub_availability_impact |-> "None"]

\* one modified impact that is not None (MSI:L)
V4ModifiedSomeImpact == [modified_sub_integrity_impact |-> "Low"]

\* the record with the base metrics of profile b, except the absent ones, the
\* Exploit Maturity slot e and the environmental metrics env
V4Record(b, absent, e, env) ==
    LET base == [attack_vector |-> b.exploitation[1],
                 privileges_required |-> b.exploitation[2],
                 user_interaction |-> b.exploitation[3],
                 attack_complexity |-> b.complexity[1],
                 attack_requirements |-> b.complexity[2],
                 vuln_confidentiality_impact |-> b.impacts[1],
                 vuln_integrity_impact |-> b.impacts[2],
                 vuln_availability_impact |-> b.impacts[3],
                 sub_confidentiality_impact |-> b.impacts[4],
                 sub_integrity_impact |-> b.impacts[5],
                 sub_availability_impact |-> b.impacts[6]]
    IN  [f \in V4BaseFields |-> IF f \in absent THEN None ELSE base[f]]
        @@ [exploit_maturity |-> e] @@ env @@ EmptyRecord("v4", <<>>)

V4Records ==
    {V4Record(b, {}, e, V4NoEnvironment) : b \in V4BaseProfiles, e \in V4ExploitMaturitySlots}
    \cup {V4Record(b, {}, e, V4SomeEnvironment) :
            b \in {p \in V4BaseProfiles : /\ p.exploitation = <<"Network", "None", "None">>
                                           /\ p.complexity = <<"Low", "None">>},
            e \in V4ExploitMaturitySlots}
    \cup {V4Record(b, {f}, e, V4NoEnvironment) :
            b \in {p \in V4BaseProfiles :
                      /\ p.exploitation = <<"Adjacent", "Low", "None">>
                      /\ p.complexity = <<"Low", "None">>
                      /\ p.impacts = <<"None", "Low", "None", "None", "None", "None">>},
            f \in V4BaseFields, e \in V4ExploitMaturitySlots}
    \cup {V4Record(b, {}, e, env) :
            b \in {p \in V4BaseProfiles : /\ p.exploitation = <<"Network", "None", "None">>
                                           /\ p.complexity = <<"Low", "None">>},
            e \in {None, "Unreported"},
            env \in {V4ModifiedNoImpact, V4ModifiedSomeImpact}}

InitV4 ==
    /\ parser = "v4"
    /\ input = <<>>
    /\ pc = "done"
    /\ rest = <<>>
    /\ cvss \in V4Records
    /\ result = Ok
    /\ call = "none"
    /\ ret = NoneF

\* cvss.calculated_base_score()
CallV4CalculatedBaseScore ==
    /\ parser = "v4" /\ pc = "done" /\ result = Ok
    /\ call' = "calculated_base_score"
    /\ ret' = CvssV4_calculated_base_score(cvss)
    /\ UNCHANGED <<parser, input, pc, rest, cvss, result>>

\* scoring::calculate_base_score(&cvss)
CallV4CalculateBaseScore ==
    /\ parser = "v4" /\ pc = "done" /\ result = Ok
    /\ call' = "calculate_base_score"
    /\ ret' = calculate_base_score(cvss)
    /\ UNCHANGED <<parser, input, pc, rest, cvss, result>>

\* scoring::calculate_score(&cvss)
CallV4CalculateScore ==
    /\ parser = "v4" /\ pc = "done" /\ result = Ok
    /\ call' = "calculate_score"
    /\ ret' = calculate_score(cvss)
    /\ UNCHANGED <<parser, input, pc, rest, cvss, result>>

NextV4 == CallV4CalculatedBaseScore \/ CallV4CalculateBaseScore \/ CallV4CalculateScore

SpecV4 == InitV4 /\ [][NextV4]_vars

V4BaseComplete == \A f \in V4BaseFields : cvss[f] # None

(***************************************************************************)
(* C9.  CvssV4::calculated_base_score returns a score (Some) for every     *)
(* v4.0 record that has all eleven base metrics, and None only for a       *)
(* record that lacks one of them.                                          *)
(***************************************************************************)
C9_BaseScoreAvailable ==
    (parser = "v4" /\ call = "calculated_base_score") => (ret.some <=> V4BaseComplete)

(***************************************************************************)
(* C10.  The v4.0 base score does not depend on the Exploit Maturity slot: *)
(* the base-score entry point returns for a record what it returns for the *)
(* record with the slot emptied, so any two records that differ only in    *)
(* the slot (absent, X, A, P or U) get the same result.  The full-score    *)
(* entry point returns the same for E absent, E:X and E:A, and that is the *)
(* base score.                                                             *)
(***************************************************************************)
WithExploitMaturity(e) == [cvss EXCEPT !.exploit_maturity = e]

C10_ExploitMaturityIgnored ==
    /\ (parser = "v4" /\ call = "calculated_base_score") =>
           ret = CvssV4_calculated_base_score(WithExploitMaturity(None))
    /\ (parser = "v4" /\ call = "calculate_base_score") =>
           ret = calculate_base_score(WithExploitMaturity(None))
    /\ (/\ parser = "v4" /\ call = "calculate_score"
        /\ cvss.exploit_maturity \in {None, "NotDefined", "Attacked"}) =>
           /\ ret = calculate_score(WithExploitMaturity(None))
           /\ ret = calculate_base_score(cvss)

\* the base score of a record with E:X whose full score with E:U is another one
C10_Witness ==
    /\ parser = "v4" /\ call = "calculate_score"
    /\ V4BaseComplete
    /\ cvss.exploit_maturity = "NotDefined"
    /\ ret.some
    /\ ret = calculate_base_score(WithExploitMaturity("Unreported"))
    /\ ret # calculate_score(WithExploitMaturity("Unreported"))

(***************************************************************************)
(* C11.  For a v4.0 record with the eleven base metrics, both entry points *)
(* of the score (calculate_base_score and calculate_score) return exactly  *)
(* 0.0 when the six impacts VC, VI, VA, SC, SI, SA are all None after the  *)
(* modified values are merged over the base values, whatever the other     *)
(* metrics are; otherwise the result is the one computed from the lookup   *)
(* table.  The test is on the merged values: modified impacts that are all *)
(* None zero the score of a record whose base impacts are not None, and a  *)
(* modified impact that is not None disables the shortcut of a record      *)
(* whose base impacts are all None.                                        *)
(***************************************************************************)
V4ScoreCalls == {"calculate_base_score", "calculate_score"}

V4ImpactSlots ==
    << <<"vuln_confidentiality_impact", "modified_vuln_confidentiality_impact">>,
       <<"vuln_integrity_impact", "modified_vuln_integrity_impact">>,
       <<"vuln_availability_impact", "modified_vuln_availability_impact">>,
       <<"sub_confidentiality_impact", "modified_sub_confidentiality_impact">>,
       <<"sub_integrity_impact", "modified_sub_integrity_impact">>,
       <<"sub_availability_impact", "modified_sub_availability_impact">> >>

\* the impact of slot i that counts: the modified value if there is one
EffectiveImpact(i) ==
    IF cvss[V4ImpactSlots[i][2]] # None THEN cvss[V4ImpactSlots[i][2]]
    ELSE cvss[V4ImpactSlots[i][1]]

NoEffectiveImpact == \A i \in 1..6 : EffectiveImpact(i) = "None"

NoBaseImpact == \A i \in 1..6 : cvss[V4ImpactSlots[i][1]] = "None"

C11_NoImpactIsZero ==
    (parser = "v4" /\ call \in V4ScoreCalls /\ V4BaseComplete) =>
        /\ NoEffectiveImpact => ret = SomeF(FZero)
        /\ ~NoEffectiveImpact =>
               ret = ScoreOfMacroVector(
                         MacroVectorOf(MergedMetrics(cvss, call = "calculate_score")),
                         MergedMetrics(cvss, call = "calculate_score"))
        /\ (NoBaseImpact /\ ~NoEffectiveImpact) => ret # SomeF(FZero)

\* the full score of a record whose base impacts are all High and whose
\* modified impacts are all None
C11_Witness ==
    /\ parser = "v4" /\ call = "calculate_score"
    /\ V4BaseComplete
    /\ \A i \in 1..6 : cvss[V4ImpactSlots[i][1]] = "High"
    /\ \A i \in 1..6 : cvss[V4ImpactSlots[i][2]] = "None"
    /\ ret = SomeF(FZero)

(***************************************************************************)
(* Vocabulary of the claims about the range of a score.                    *)
(***************************************************************************)
\* the integer an integral double stands for
FInt(r) ==
    IF r.m = <<>> THEN 0
    ELSE (IF r.neg THEN -1 ELSE 1)
         * IntOfBig(IF r.e >= 0 THEN BigShl(r.m, r.e) ELSE BigShr(r.m, -r.e))

\* x is the double k / 10
IsTenth(x, k) == k \in 0..100 /\ x = Dec(k, 10)

\* x is one of 0.0, 0.1, ..., 10.0: within the scale, with one decimal digit
OnScale(x) == IsTenth(x, FInt(FRound(FMul(x, f10))))

V2ImpactFields == {"confidentiality_impact", "integrity_impact", "availability_impact"}

\* every optional metric of the record is absent or NotDefined
V2NothingDefined == \A f \in V2OptionalFields : cvss[f] \in {None, "NotDefined"}

(***************************************************************************)
(* C12.  For every v2.0 record with the six base metrics present whose     *)
(* impacts C, I and A are all None, each of calculated_base_score,         *)
(* calculated_temporal_score and calculated_environmental_score returns    *)
(* exactly 0.0, whatever the other base, temporal and environmental        *)
(* metrics are.                                                            *)
(***************************************************************************)
C12_V2ZeroImpactIsZero ==
    (/\ parser = "v2" /\ call \in V2ScoreCalls /\ V2BaseComplete
     /\ \A f \in V2ImpactFields : cvss[f] = "None") =>
        ret = SomeF(FZero)

(***************************************************************************)
(* C13.  Every score the v2.0 engine returns (base, temporal and           *)
(* environmental, for every combination of metric values with the six base *)
(* metrics present) lies within [0.0, 10.0] and is a multiple of 0.1.      *)
(***************************************************************************)
C13_V2ScoreOnScale ==
    (parser = "v2" /\ call \in V2ScoreCalls /\ ret.some) => OnScale(ret.v)

(***************************************************************************)
(* C15.  For a v2.0 record with the six base metrics present in which      *)
(* every temporal metric (E, RL, RC) and every environmental metric (CDP,  *)
(* TD, CR, IR, AR) is absent or NotDefined, calculated_temporal_score and  *)
(* calculated_environmental_score both return what calculated_base_score   *)
(* returns.                                                                *)
(***************************************************************************)
C15_V2DefaultsKeepBase ==
    (/\ parser = "v2" /\ V2BaseComplete /\ V2NothingDefined
     /\ call \in {"calculated_temporal_score", "calculated_environmental_score"}) =>
        ret = CvssV2_calculated_base_score(cvss)

(***************************************************************************)
(* C14.  The score both v4.0 entry points return is clamped to [0, 10] and *)
(* rounded half-up to one decimal place after a small epsilon is added:    *)
(* every returned v4.0 score is one of 0.0, 0.1, ..., 10.0, a value that   *)
(* round_v4 leaves as it is; and round_v4 maps a value below 0 to 0.0 and  *)
(* a value above 10 to 10.0.                                               *)
(***************************************************************************)
C14_V4ScoreRounded ==
    /\ (parser = "v4" /\ call \in V4ScoreCalls /\ ret.some) =>
           /\ OnScale(ret.v)
           /\ ret.v = round_v4(ret.v)
    /\ round_v4(FOfInt(-1)) = FZero
    /\ round_v4(FOfInt(11)) = FOfInt(10)

(***************************************************************************)
(* CVSS v3.x scoring.  v3.rs holds the weights of the metrics (score) and  *)
(* Scope::is_changed; CvssV3::calculated_base_score, which the tests call, *)
(* and the weight of Privileges Required are not part of the sources and   *)
(* are taken from the specification, which defers to the base equations of *)
(* the CVSS v3.1 standard and rounds the final score to one decimal place. *)
(***************************************************************************)
\* AttackVector::score
V3AttackVectorScore ==
    [Network |-> Dec(85, 100), AdjacentNetwork |-> Dec(62, 100), Local |-> Dec(55, 100),
     Physical |-> Dec(20, 100), NotDefined |-> Dec(85, 100)]

\* AttackComplexity::score
V3AttackComplexityScore ==
    [Low |-> Dec(77, 100), High |-> Dec(44, 100), NotDefined |-> Dec(77, 100)]

\* UserInteraction::score
V3UserInteractionScore ==
    [None |-> Dec(85, 100), Required |-> Dec(62, 100), NotDefined |-> Dec(85, 100)]

\* Impact::score
V3ImpactScore ==
    [High |-> Dec(56, 100), Low |-> Dec(22, 100), None |-> FZero, NotDefined |-> Dec(56, 100)]

\* a variant of Scope_is_changed for which no scope is changed;
\* C16_V3BaseScores tells it from the code
Scope_is_changed_Never(scope) == FALSE

\* Scope::is_changed
Scope_is_changed(scope) == scope = "Changed"

\* the weight of Privileges Required, which depends on the scope
V3PrivilegesRequiredScore(pr, changed) ==
    CASE pr = "Low" -> IF changed THEN Dec(68, 100) ELSE Dec(62, 100)
      [] pr = "High" -> IF changed THEN Dec(50, 100) ELSE Dec(27, 100)
      [] OTHER -> Dec(85, 100)

\* x^15 as x^8 * x^4 * x^2 * x, from the squares x2 = x^2 and x4 = x^4
FPow15From(x, x2, x4) == FMul(FMul(FMul(FMul(x4, x4), x4), x2), x)

FPow15Squared(x, x2) == FPow15From(x, x2, FMul(x2, x2))

\* x to the power 15
FPow15(x) == FPow15Squared(x, FMul(x, x))

\* ISS = 1 - (1 - C) * (1 - I) * (1 - A)
V3Iss(c, i, a) == FSub(f1, FMul(FMul(FSub(f1, c), FSub(f1, i)), FSub(f1, a)))

\* Impact: 6.42 * ISS, or 7.52 * (ISS - 0.029) - 3.25 * (ISS - 0.02)^15 when
\* the scope is changed
V3ImpactSubScore(iss, changed) ==
    IF changed
    THEN FSub(FMul(Dec(752, 100), FSub(iss, Dec(29, 1000))),
              FMul(Dec(325, 100), FPow15(FSub(iss, Dec(2, 100)))))
    ELSE FMul(Dec(642, 100), iss)

\* Exploitability = 8.22 * AV * AC * PR * UI
V3Exploitability(av, ac, pr, ui) == FMul(FMul(FMul(FMul(Dec(822, 100), av), ac), pr), ui)

\* the base score from the two sub-scores: 0 without impact, else the sum,
\* times 1.08 when the scope is changed, at most 10, to one decimal place
V3BaseEquation(impact, exploitability, changed) ==
    IF ~FLess(f0, impact) THEN f0
    ELSE round_to_first_decimal(
             FMin(IF changed THEN FMul(Dec(108, 100), FAdd(impact, exploitability))
                  ELSE FAdd(impact, exploitability),
                  f10))

V3BaseFields ==
    {"attack_vector", "attack_complexity", "privileges_required", "user_interaction",
     "scope", "confidentiality_impact", "integrity_impact", "availability_impact"}

\* the base score of a record that has the eight base metrics
V3BaseScoreOf(self, changed) ==
    V3BaseEquation(
        V3ImpactSubScore(V3Iss(V3ImpactScore[self.confidentiality_impact],
                               V3ImpactScore[self.integrity_impact],
                               V3ImpactScore[self.availability_impact]),
                         changed),
        V3Exploitability(V3AttackVectorScore[self.attack_vector],
                         V3AttackComplexityScore[self.attack_complexity],
                         V3PrivilegesRequiredScore(self.privileges_required, changed),
                         V3UserInteractionScore[self.user_interaction]),
        changed)

\* CvssV3::calculated_base_score
CvssV3_calculated_base_score(self) ==
    IF \E f \in V3BaseFields : self[f] = None THEN NoneF
    ELSE SomeF(V3BaseScoreOf(self, Scope_is_changed(self.scope)))

(***************************************************************************)
(* The v3.x scoring specification: CvssV3::from_str on a vector string,    *)
(* then calculated_base_score on the record it returned.                   *)
(***************************************************************************)
\* the codes of <<AV, AC, PR, UI, S>> and of <<C, I, A>> that the vectors
\* are made of
V3ExploitCodes ==
    {<<av, <<"L">>, pr, <<"N">>, sc>> :
        av \in {<<"N">>, <<"L">>}, pr \in {<<"N">>, <<"L">>, <<"H">>},
        sc \in {<<"U">>, <<"C">>}}

V3ImpactCodes ==
    { <<<<"H">>, <<"H">>, <<"H">>>>, <<<<"N">>, <<"N">>, <<"N">>>>,
      <<<<"L">>, <<"N">>, <<"H">>>> }

\* CVSS:3.1/ and the first n base metrics with the codes x and y
V3Vector(x, y, n) ==
    Pre("v3") \o join([i \in 1..n |-> Segment(V3Keys[i][1], (x \o y)[i])], "/")

\* complete base vectors, and vectors that stop before S or before A
V3ScoreInputs ==
    {V3Vector(x, y, n) : x \in V3ExploitCodes, y \in V3ImpactCodes, n \in {8}}
    \cup {V3Vector(<<<<"N">>, <<"L">>, <<"L">>, <<"N">>, <<"C">>>>,
                   <<<<"H">>, <<"H">>, <<"H">>>>, n) : n \in {4, 7}}

InitV3 ==
    /\ parser = "v3"
    /\ input \in V3ScoreInputs
    /\ pc = "start"
    /\ rest = <<>>
    /\ cvss = NoRecord
    /\ result = Pending
    /\ call = "none"
    /\ ret = NoneF

\* cvss.calculated_base_score()
CallV3BaseScore ==
    /\ parser = "v3" /\ pc = "done" /\ result = Ok
    /\ call' = "calculated_base_score"
    /\ ret' = CvssV3_calculated_base_score(cvss)
    /\ UNCHANGED <<parser, input, pc, rest, cvss, result>>

NextV3 == FromStrBegin \/ FromStrComponent \/ FromStrReturn \/ CallV3BaseScore

SpecV3 == InitV3 /\ [][NextV3]_vars

(***************************************************************************)
(* C16.  The v3.1 base score of CVSS:3.1/AV:N/AC:L/PR:N/UI:N/S:U/C:H/I:H/  *)
(* A:H is 9.8, and that of the scope-changed vector CVSS:3.1/AV:N/AC:L/    *)
(* PR:L/UI:N/S:C/C:H/I:H/A:H is 9.9: with scope Changed the engine uses    *)
(* the scope-changed weight of Privileges Required and the scope-changed   *)
(* combination of impact and exploitability.                               *)
(***************************************************************************)
V3Critical ==
    V3Vector(<<<<"N">>, <<"L">>, <<"N">>, <<"N">>, <<"U">>>>, <<<<"H">>, <<"H">>, <<"H">>>>, 8)

V3ScopeChanged ==
    V3Vector(<<<<"N">>, <<"L">>, <<"L">>, <<"N">>, <<"C">>>>, <<<<"H">>, <<"H">>, <<"H">>>>, 8)

C16_V3BaseScores ==
    (parser = "v3" /\ call = "calculated_base_score") =>
        /\ input = V3Critical => ret = SomeF(Dec(98, 10))
        /\ input = V3ScopeChanged => ret = SomeF(Dec(99, 10))

\* the base score of the scope-changed vector has been computed
C16_Witness ==
    /\ parser = "v3" /\ call = "calculated_base_score"
    /\ input = V3ScopeChanged
    /\ cvss.scope = "Changed" /\ cvss.privileges_required = "Low"
    /\ ret = SomeF(Dec(99, 10))

(***************************************************************************)
(* Display of the records, and from_str as a function of its argument (the *)
(* process above run to its end).                                          *)
(***************************************************************************)
\* Display of a metric value as strum derives it: the serialize string
DisplayValue(enum, variant) ==
    enum[CHOOSE j \in 1..Len(enum) : enum[j][2] = variant][1]

\* `if let Some(x) = &self.<field> { write!(f, "/<KEY>:{}", x)?; }` for the
\* arms i.. of keys
RECURSIVE DisplaySlots(_, _, _)
DisplaySlots(self, keys, i) ==
    IF i > Len(keys) THEN <<>>
    ELSE (IF self[keys[i][2]] = None THEN <<>>
          ELSE <<"/">> \o keys[i][1] \o <<":">>
               \o DisplayValue(keys[i][3], self[keys[i][2]]))
         \o DisplaySlots(self, keys, i + 1)

\* the metrics Display for CvssV2 writes after AV, with the keys as it
\* writes them
V2DisplayKeys ==
    << <<<<"A","C">>, "access_complexity", V2AccessComplexity>>,
       <<<<"A","u">>, "authentication", V2Authentication>>,
       <<<<"C">>, "confidentiality_impact", V2Impact>>,
       <<<<"I">>, "integrity_impact", V2Impact>>,
       <<<<"A">>, "availability_impact", V2Impact>> >>

\* impl Display for CvssV2: "AV:" is written whether the slot is set or not
CvssV2_fmt(self) ==
    <<"A","V",":">>
    \o (IF self.access_vector = None THEN <<>>
        ELSE DisplayValue(V2AccessVector, self.access_vector))
    \o DisplaySlots(self, V2DisplayKeys, 1)

\* impl Display for CvssV3: the version is 3.0 if the stored string starts
\* with "CVSS:3.0", else 3.1
CvssV3_fmt(self) ==
    CVSS \o <<":">>
    \o (IF starts_with(self.vector_string, CVSS \o <<":","3",".","0">>)
        THEN <<"3",".","0">> ELSE <<"3",".","1">>)
    \o DisplaySlots(self, V3Keys, 1)

\* impl Display for CvssV4
CvssV4_fmt(self) == CVSS \o <<":","4",".","0">> \o DisplaySlots(self, V4Keys, 1)

\* ToString::to_string of the record of parser p
to_string(p, self) ==
    CASE p = "v2" -> CvssV2_fmt(self)
      [] p = "v3" -> CvssV3_fmt(self)
      [] p = "v4" -> CvssV4_fmt(self)

\* the metric loop of from_str on the components left, r the outcome of the
\* first of them
RECURSIVE FromStrLoop(_, _, _)
FromStrStep(p, components, record, r) ==
    IF r.kind = "err" THEN [result |-> r.err, cvss |-> NoRecord]
    ELSE FromStrLoop(p, Tail(components),
                     IF r.kind = "set" THEN SetSlot(record, r.field, r.v) ELSE record)

FromStrLoop(p, components, record) ==
    IF components = <<>> THEN [result |-> Ok, cvss |-> record]
    ELSE FromStrStep(p, components, record, ParseComponent(p, Head(components)))

FromStrPrefixed(p, s, r) ==
    IF r.err # Ok THEN [result |-> r.err, cvss |-> NoRecord]
    ELSE FromStrLoop(p, r.components, EmptyRecord(p, s))

\* <parser p>::from_str(s): the result and the record
from_str(p, s) == FromStrPrefixed(p, s, ParsePrefix(p, s))

(***************************************************************************)
(* C17.  Round trip: for any record the v2.0, v3.x or v4.0 parser returned *)
(* (records with some or all metrics absent included), parsing the string  *)
(* Display renders of it with the same parser succeeds and gives a record  *)
(* whose metric slots are those of the original.                           *)
(***************************************************************************)
SameSlots(p, record, again) ==
    /\ again.result = Ok
    /\ \A f \in MetricFields(p) : again.cvss[f] = record[f]

C17_RoundTrip ==
    (Done /\ result = Ok) => SameSlots(parser, cvss, from_str(parser, to_string(parser, cvss)))

(***************************************************************************)
(* The accessors of the reported fields.                                   *)
(***************************************************************************)
\* CvssV2::base_score, CvssV3::base_score, CvssV4::base_score
base_score(self) == self.base_score

\* Option<UnifiedSeverity>::Some
SomeSeverity(severity) == <<"Some", severity>>

\* CvssV2::base_severity: the reported severity, if there is one
CvssV2_base_severity(self) ==
    IF self.severity = None THEN None ELSE SomeSeverity(self.severity)

\* CvssV3::base_severity and CvssV4::base_severity
CvssV3_base_severity(self) == SomeSeverity(self.base_severity)

base_severity(p, self) ==
    IF p = "v2" THEN CvssV2_base_severity(self) ELSE CvssV3_base_severity(self)

(***************************************************************************)
(* C18.  A successfully parsed record holds the input string verbatim in   *)
(* vector_string (prefix, letter case and empty segments included) and the *)
(* parser derives nothing else from it: the reported score and severity    *)
(* fields hold their fixed defaults whatever metrics were parsed, so       *)
(* base_score() returns 0.0 and base_severity() the default severity,      *)
(* never a computed score.                                                 *)
(***************************************************************************)
C18_VerbatimAndDefaults ==
    (Done /\ result = Ok) =>
        /\ cvss.vector_string = input
        /\ base_score(cvss) = FZero
        /\ base_severity(parser, cvss) = IF parser = "v2" THEN None ELSE SomeSeverity("None")
        /\ \A f \in DOMAIN cvss :
              f \in {"temporal_score", "environmental_score"} => cvss[f] = NoneF
        /\ \A f \in DOMAIN cvss :
              f \in {"temporal_severity", "environmental_severity"} => cvss[f] = None

\* a v2.0 vector with lower-case letters or an empty segment has been parsed
\* into a record that has all base metrics: the reported score is 0.0, the
\* computed one is not
C18_Witness ==
    /\ Done /\ result = Ok /\ parser = "v2"
    /\ input # to_ascii_uppercase(input) \/ \E i \in 1..Len(Segments) : Segments[i] = <<>>
    /\ cvss.vector_string = input
    /\ base_score(cvss) = FZero
    /\ CvssV2_calculated_base_score(cvss).some
    /\ CvssV2_calculated_base_score(cvss) # SomeF(FZero)

(***************************************************************************)
(* Scoring calls on v2.0 and v4.0 records, in any order and any number.    *)
(***************************************************************************)
\* v2.0 records: complete ones and ones without Access Vector
V2ReadRecords ==
    {V2Record(b, absent, o) :
        b \in V2BaseProfiles, absent \in {{}, {"access_vector"}}, o \in V2OptionalProfiles}

\* v4.0 records: complete ones, with and without threat and environmental metrics
V4ReadRecords ==
    {V4Record(b, {}, e, env) :
        b \in {p \in V4BaseProfiles : p.complexity = <<"Low", "None">>},
        e \in {None, "ProofOfConcept"},
        env \in {V4NoEnvironment, V4SomeEnvironment}}

InitScore ==
    /\ parser \in {"v2", "v4"}
    /\ input = <<>>
    /\ pc = "done"
    /\ rest = <<>>
    /\ cvss \in IF parser = "v2" THEN V2ReadRecords ELSE V4ReadRecords
    /\ result = Ok
    /\ call = "none"
    /\ ret = NoneF

NextScore == NextV2 \/ NextV4

SpecScore == InitScore /\ [][NextScore]_vars

Nomenclature_fmt(self) ==
    CASE self = "CvssB" -> "CVSS-B"
      [] self = "CvssBE" -> "CVSS-BE"
      [] self = "CvssBT" -> "CVSS-BT"
      [] self = "CvssBTE" -> "CVSS-BTE"

\* a variant of Nomenclature_from that looks at the modified metrics only;
\* C20_Nomenclature tells it from the code
Nomenclature_from_ModifiedOnly(cvss_) ==
    LET has_threat == cvss_.exploit_maturity # None
        has_environmental ==
            \/ cvss_.modified_attack_vector # None
            \/ cvss_.modified_attack_complexity # None
            \/ cvss_.modified_attack_requirements # None
            \/ cvss_.modified_privileges_required # None
            \/ cvss_.modified_user_interaction # None
            \/ cvss_.modified_vuln_confidentiality_impact # None
            \/ cvss_.modified_vuln_integrity_impact # None
            \/ cvss_.modified_vuln_availability_impact # None
            \/ cvss_.modified_sub_confidentiality_impact # None
            \/ cvss_.modified_sub_integrity_impact # None
            \/ cvss_.modified_sub_availability_impact # None
    IN  CASE has_threat /\ has_environmental -> "CvssBTE"
          [] has_threat /\ ~has_environmental -> "CvssBT"
          [] ~has_threat /\ has_environmental -> "CvssBE"
          [] ~has_threat /\ ~has_environmental -> "CvssB"

\* impl From<&CvssV4> for Nomenclature
Nomenclature_from(cvss_) ==
    LET has_threat == cvss_.exploit_maturity # None
        has_environmental ==
            \/ cvss_.confidentiality_requirement # None
            \/ cvss_.integrity_requirement # None
            \/ cvss_.availability_requirement # None
            \/ cvss_.modified_attack_vector # None
            \/ cvss_.modified_attack_complexity # None
            \/ cvss_.modified_attack_requirements # None
            \/ cvss_.modified_privileges_required # None
            \/ cvss_.modified_user_interaction # None
            \/ cvss_.modified_vuln_confidentiality_impact # None
            \/ cvss_.modified_vuln_integrity_impact # None
            \/ cvss_.modified_vuln_availability_impact # None
            \/ cvss_.modified_sub_confidentiality_impact # None
            \/ cvss_.modified_sub_integrity_impact # None
            \/ cvss_.modified_sub_availability_impact # None
    IN  CASE has_threat /\ has_environmental -> "CvssBTE"
          [] has_threat /\ ~has_environmental -> "CvssBT"
          [] ~has_threat /\ has_environmental -> "CvssBE"
          [] ~has_threat /\ ~has_environmental -> "CvssB"

\* positions of the key table: E, the environmental metrics (CR, IR, AR and
\* the eleven modified metrics), the supplemental metrics
V4ThreatKeys == {12}
V4EnvironmentalKeys == 13..26
V4SupplementalKeys == 27..32

V4FieldsAt(positions) == {V4Keys[i][2] : i \in positions}

\* the slot at position i of the key table set to the first or the last
\* variant of its enum
V4SlotSet(i, last) ==
    LET arm == V4Keys[i]
    IN  [f \in {arm[2]} |-> arm[3][IF last THEN Len(arm[3]) ELSE 1][2]]

\* settings of the environmental slots: one slot alone, or all of them
V4EnvironmentalSettings ==
    {V4SlotSet(i, last) : i \in V4EnvironmentalKeys, last \in BOOLEAN}
    \cup {[f \in V4FieldsAt(V4EnvironmentalKeys) |-> "NotDefined"]}

\* settings of what the label does not depend on: a supplemental slot, the
\* reported fields, a missing base metric
V4OtherSettings ==
    {V4SlotSet(i, FALSE) : i \in V4SupplementalKeys}
    \cup {[base_score |-> Dec(93, 10), base_severity |-> "Critical"],
          [attack_vector |-> None],
          [vuln_confidentiality_impact |-> None, sub_availability_impact |-> None]}

\* records for the nomenclature: a base record, Exploit Maturity absent or
\* set, at most one environmental setting, at most one other setting
V4NomenclatureBase ==
    {V4Record(b, {}, e, V4NoEnvironment) :
        b \in {p \in V4BaseProfiles : /\ p.exploitation = <<"Network", "None", "None">>
                                       /\ p.complexity = <<"Low", "None">>
                                       /\ p.impacts[1] = p.impacts[6]},
        e \in {None, "NotDefined", "Attacked"}}

V4NomenclatureRecords ==
    V4NomenclatureBase
    \cup {env @@ r : env \in V4EnvironmentalSettings, r \in V4NomenclatureBase}
    \cup {o @@ r : o \in V4OtherSettings, r \in V4NomenclatureBase}
    \cup {o @@ env @@ r : o \in V4OtherSettings,
                          env \in {V4SlotSet(13, TRUE), V4SlotSet(26, FALSE)},
                          r \in V4NomenclatureBase}

InitNomenclature ==
    /\ parser = "v4"
    /\ input = <<>>
    /\ pc = "done"
    /\ rest = <<>>
    /\ cvss \in V4NomenclatureRecords
    /\ result = Ok
    /\ call = "none"
    /\ ret = NoneF

\* Nomenclature::from(&cvss)
CallNomenclature ==
    /\ parser = "v4" /\ pc = "done" /\ result = Ok
    /\ call' = "nomenclature"
    /\ ret' = Nomenclature_from(cvss)
    /\ UNCHANGED <<parser, input, pc, rest, cvss, result>>

NextNomenclature == CallNomenclature

SpecNomenclature == InitNomenclature /\ [][NextNomenclature]_vars

(***************************************************************************)
(* C20.  The nomenclature of a v4.0 record is CVSS-BTE when the Exploit    *)
(* Maturity slot and at least one environmental slot (CR, IR, AR or a      *)
(* modified metric) are present, CVSS-BT when of these only Exploit        *)
(* Maturity is present, CVSS-BE when only an environmental slot is         *)
(* present, CVSS-B otherwise; the base metrics, the supplemental metrics   *)
(* and the reported fields do not change the label; the labels render as   *)
(* "CVSS-B", "CVSS-BE", "CVSS-BT", "CVSS-BTE".                             *)
(***************************************************************************)
ThreatPresent == \E f \in V4FieldsAt(V4ThreatKeys) : cvss[f] # None
EnvironmentalPresent == \E f \in V4FieldsAt(V4EnvironmentalKeys) : cvss[f] # None

\* the record with everything but Exploit Maturity and the environmental
\* slots as in a record that has nothing set
ThreatAndEnvironmentOnly ==
    [f \in DOMAIN cvss |->
        IF f \in V4FieldsAt(V4ThreatKeys \cup V4EnvironmentalKeys)
        THEN cvss[f] ELSE EmptyRecord("v4", <<>>)[f]]

C20_Nomenclature ==
    (parser = "v4" /\ call = "nomenclature") =>
        /\ Nomenclature_fmt(ret) =
              IF ThreatPresent
              THEN IF EnvironmentalPresent THEN "CVSS-BTE" ELSE "CVSS-BT"
              ELSE IF EnvironmentalPresent THEN "CVSS-BE" ELSE "CVSS-B"
        /\ ret = Nomenclature_from(ThreatAndEnvironmentOnly)
        /\ ret \in {"CvssB", "CvssBE", "CvssBT", "CvssBTE"}

\* the label of a record with E:X, a requirement as its only environmental
\* slot, and a supplemental metric is CVSS-BTE
C20_Witness ==
    /\ parser = "v4" /\ call = "nomenclature"
    /\ cvss.exploit_maturity = "NotDefined"
    /\ cvss.confidentiality_requirement # None
    /\ \A f \in V4FieldsAt(V4EnvironmentalKeys) \ {"confidentiality_requirement"} :
          cvss[f] = None
    /\ \E f \in V4FieldsAt(V4SupplementalKeys) : cvss[f] # None
    /\ Nomenclature_fmt(ret) = "CVSS-BTE"

(***************************************************************************)
(* C21.  v4.0 scoring works on effective values: for each of the eleven    *)
(* base metrics the modified counterpart when that slot is present, the    *)
(* base value otherwise, and for CR, IR, AR the value High when the slot   *)
(* is absent.  The score of a record is the score of the record that       *)
(* holds the effective values in its base and requirement slots and has    *)
(* no modified slot set, so classification, the zero-impact test and the   *)
(* severity distances never see a raw base value that is overridden.       *)
(***************************************************************************)
\* positions of the key table: the base metrics, the requirements; the
\* modified counterpart of a base metric has the key of the metric after M
V4BaseKeys == 1..11
V4RequirementKeys == 13..15
ModifiedKey(i) == CHOOSE j \in 1..Len(V4Keys) : V4Keys[j][1] = <<"M">> \o V4Keys[i][1]

\* the effective value of the base metric at position i of the key table
EffectiveBase(i) ==
    IF cvss[V4Keys[ModifiedKey(i)][2]] # None
    THEN cvss[V4Keys[ModifiedKey(i)][2]]
    ELSE cvss[V4Keys[i][2]]

\* the effective value of the requirement at position i of the key table
EffectiveRequirement(i) ==
    IF cvss[V4Keys[i][2]] = None THEN "High" ELSE cvss[V4Keys[i][2]]

\* the record with the effective values written into the base and
\* requirement slots and every modified slot empty
EffectiveRecord ==
    [f \in DOMAIN cvss |->
        IF \E i \in V4BaseKeys : V4Keys[i][2] = f
        THEN EffectiveBase(CHOOSE i \in V4BaseKeys : V4Keys[i][2] = f)
        ELSE IF \E i \in V4RequirementKeys : V4Keys[i][2] = f
        THEN EffectiveRequirement(CHOOSE i \in V4RequirementKeys : V4Keys[i][2] = f)
        ELSE IF \E i \in V4BaseKeys : V4Keys[ModifiedKey(i)][2] = f
        THEN None
        ELSE cvss[f]]

\* the record with the modified and requirement slots emptied
RawBaseRecord ==
    [f \in DOMAIN cvss |->
        IF \E i \in V4EnvironmentalKeys : V4Keys[i][2] = f THEN None ELSE cvss[f]]

C21_EffectiveValues ==
    (parser = "v4" /\ call \in V4ScoreCalls /\ V4BaseComplete) =>
        /\ ret = calculate_score_internal(EffectiveRecord, call = "calculate_score")
        /\ \A i \in V4RequirementKeys :
              cvss[V4Keys[i][2]] = None =>
                  ret = calculate_score_internal(
                            [cvss EXCEPT ![V4Keys[i][2]] = "High"], call = "calculate_score")

\* a record with MAV:L and MVC:H over AV:N and VC:N has been scored: the
\* score is not the one its base metrics alone would give
C21_Witness ==
    /\ parser = "v4" /\ call \in V4ScoreCalls /\ V4BaseComplete
    /\ cvss.attack_vector = "Network" /\ cvss.modified_attack_vector = "Local"
    /\ cvss.vuln_confidentiality_impact = "None"
    /\ cvss.modified_vuln_confidentiality_impact = "High"
    /\ cvss.availability_requirement = None
    /\ ret.some
    /\ ret # calculate_score_internal(RawBaseRecord, call = "calculate_score")

(***************************************************************************)
(* The classification step of calculate_score_internal: the merged         *)
(* metrics and the MacroVector made of them.                               *)
(***************************************************************************)
Variants(enum) == {enum[j][2] : j \in 1..Len(enum)}

\* the record every classification input is a variation of:
\* AV:N/AC:L/AT:N/PR:N/UI:N/VC:H/VI:H/VA:H/SC:L/SI:L/SA:L
V4ClassifyDefault ==
    V4Record([exploitation |-> <<"Network", "None", "None">>,
              complexity |-> <<"Low", "None">>,
              impacts |-> <<"High", "High", "High", "Low", "Low", "Low">>],
             {}, None, V4NoEnvironment)

\* every combination of AV, PR, UI, in the base slots or in the modified ones
V4ExploitationSettings ==
    {[attack_vector |-> av, privileges_required |-> pr, user_interaction |-> ui] :
        av \in Variants(V4AttackVector), pr \in Variants(V4PrivilegesRequired),
        ui \in Variants(V4UserInteraction)}
    \cup {[modified_attack_vector |-> av, modified_privileges_required |-> pr,
           modified_user_interaction |-> ui] :
        av \in Variants(V4AttackVector), pr \in Variants(V4PrivilegesRequired),
        ui \in Variants(V4UserInteraction)}

\* every combination of AC, AT, in the base slots or in the modified ones
V4ComplexitySettings ==
    {[attack_complexity |-> ac, attack_requirements |-> at] :
        ac \in Variants(V4AttackComplexity), at \in Variants(V4AttackRequirements)}
    \cup {[modified_attack_complexity |-> ac, modified_attack_requirements |-> at] :
        ac \in Variants(V4AttackComplexity), at \in Variants(V4AttackRequirements)}

\* every combination of SC, SI, SA, in the base slots or in the modified ones
V4SubsequentSettings ==
    {[sub_confidentiality_impact |-> sc, sub_integrity_impact |-> si,
      sub_availability_impact |-> sa] :
        sc \in Variants(V4SubsequentImpact), si \in Variants(V4SubsequentImpact),
        sa \in Variants(V4SubsequentImpact)}
    \cup {[modified_sub_confidentiality_impact |-> sc, modified_sub_integrity_impact |-> si,
           modified_sub_availability_impact |-> sa] :
        sc \in Variants(V4SubsequentImpact), si \in Variants(V4SubsequentImpact),
        sa \in Variants(V4SubsequentImpact)}

\* every state of the Exploit Maturity slot
V4MaturitySettings == {[exploit_maturity |-> e] : e \in V4ExploitMaturitySlots}

\* every combination of VC, VI, VA with every state of the slots CR, IR, AR
V4VulnerableSettings ==
    {[vuln_confidentiality_impact |-> vc, vuln_integrity_impact |-> vi,
      vuln_availability_impact |-> va, confidentiality_requirement |-> cr,
      integrity_requirement |-> ir, availability_requirement |-> ar] :
        vc \in Variants(V4Impact), vi \in Variants(V4Impact), va \in Variants(V4Impact),
        cr \in Variants(V4Requirement) \cup {None},
        ir \in Variants(V4Requirement) \cup {None},
        ar \in Variants(V4Requirement) \cup {None}}

\* VC, VI, VA overridden by modified impacts, the requirements absent
V4ModifiedVulnerableSettings ==
    {[modified_vuln_confidentiality_impact |-> vc, modified_vuln_integrity_impact |-> vi,
      modified_vuln_availability_impact |-> va] :
        vc \in Variants(V4Impact), vi \in Variants(V4Impact), va \in Variants(V4Impact)}

V4ClassifyRecords ==
    {x @@ V4ClassifyDefault :
        x \in V4ExploitationSettings \cup V4ComplexitySettings \cup V4SubsequentSettings
               \cup V4MaturitySettings \cup V4VulnerableSettings
               \cup V4ModifiedVulnerableSettings}

InitClassify ==
    /\ parser = "v4"
    /\ input = <<>>
    /\ pc = "done"
    /\ rest = <<>>
    /\ cvss \in V4ClassifyRecords
    /\ result = Ok
    /\ call = "none"
    /\ ret = NoneF

\* the six merged impacts are all None: the shortcut is taken and no
\* MacroVector is made
ZeroImpactShortcut(m) ==
    /\ m.vc = "None" /\ m.vi = "None" /\ m.va = "None"
    /\ m.sc = "None" /\ m.si = "None" /\ m.sa = "None"

\* calculate_score_internal(cvss, include_threat_metrics) up to
\* MacroVector::new
Classify(include_threat_metrics, name) ==
    /\ parser = "v4" /\ pc = "done" /\ result = Ok
    /\ \A f \in V4BaseFields : cvss[f] # None
    /\ ~ZeroImpactShortcut(MergedMetrics(cvss, include_threat_metrics))
    /\ call' = name
    /\ ret' = MacroVectorOf(MergedMetrics(cvss, include_threat_metrics))
    /\ UNCHANGED <<parser, input, pc, rest, cvss, result>>

\* within calculate_score
ClassifyScore == Classify(TRUE, "calculate_score/macro_vector")

\* within calculate_base_score
ClassifyBaseScore == Classify(FALSE, "calculate_base_score/macro_vector")

NextClassify == ClassifyScore \/ ClassifyBaseScore

SpecClassify == InitClassify /\ [][NextClassify]_vars

Classified == call \in {"calculate_score/macro_vector", "calculate_base_score/macro_vector"}

\* the effective Exploit Maturity: Attacked for the base score, for an absent
\* slot and for E:X
EffectiveMaturity ==
    IF call = "calculate_base_score/macro_vector" \/ cvss.exploit_maturity \in {None, "NotDefined"}
    THEN "Attacked" ELSE cvss.exploit_maturity

(***************************************************************************)
(* C22.  On effective values: EQ1 = 0 iff AV:N, PR:N and UI:N; EQ1 = 2 iff *)
(* AV:P or none of AV:N, PR:N, UI:N; otherwise EQ1 = 1.  EQ2 = 0 iff AC:L  *)
(* and AT:N, otherwise 1.  EQ4 = 0 iff one of SC, SI, SA is Safety (even   *)
(* when another is High); EQ4 = 1 iff none is Safety and one is High;      *)
(* otherwise 2.  EQ5 = 0, 1, 2 for effective Exploit Maturity Attacked,    *)
(* ProofOfConcept, Unreported.  Each class takes exactly one ordinal.      *)
(***************************************************************************)
ExploitationTrio == <<EffectiveBase(1) = "Network", EffectiveBase(4) = "None",
                      EffectiveBase(5) = "None">>
SubsequentTrio == {EffectiveBase(9), EffectiveBase(10), EffectiveBase(11)}

C22_Eq1Eq2Eq4Eq5 ==
    Classified =>
        /\ ret.eq1 \in 0..2 /\ ret.eq2 \in 0..1 /\ ret.eq4 \in 0..2 /\ ret.eq5 \in 0..2
        /\ ret.eq1 = 0 <=> \A k \in 1..3 : ExploitationTrio[k]
        /\ ret.eq1 = 2 <=> \/ EffectiveBase(1) = "Physical"
                          \/ \A k \in 1..3 : ~ExploitationTrio[k]
        /\ ret.eq2 = 0 <=> EffectiveBase(2) = "Low" /\ EffectiveBase(3) = "None"
        /\ ret.eq4 = 0 <=> "Safety" \in SubsequentTrio
        /\ ret.eq4 = 1 <=> "Safety" \notin SubsequentTrio /\ "High" \in SubsequentTrio
        /\ ret.eq5 = 0 <=> EffectiveMaturity = "Attacked"
        /\ ret.eq5 = 1 <=> EffectiveMaturity = "ProofOfConcept"
        /\ ret.eq5 = 2 <=> EffectiveMaturity = "Unreported"

\* MSI:S with MSC:H: Safety wins over High; AV:N, PR:N, UI:N gives EQ1 = 0
C22_Witness ==
    /\ Classified
    /\ cvss.modified_sub_integrity_impact = "Safety"
    /\ cvss.modified_sub_confidentiality_impact = "High"
    /\ ret.eq4 = 0 /\ ret.eq1 = 0 /\ ret.eq2 = 0 /\ ret.eq5 = 0

(***************************************************************************)
(* C23.  On effective values: EQ3 = 0 iff VC:H and VI:H; EQ3 = 1 iff not   *)
(* (VC:H and VI:H) and at least one of VC, VI, VA is High; EQ3 = 2 iff     *)
(* none of them is High.  EQ6 = 0 iff (CR:H and VC:H) or (IR:H and VI:H)   *)
(* or (AR:H and VA:H), otherwise EQ6 = 1.                                  *)
(***************************************************************************)
VulnerableHigh == [k \in 1..3 |-> EffectiveBase(5 + k) = "High"]
RequirementHigh == [k \in 1..3 |-> EffectiveRequirement(12 + k) = "High"]

C23_Eq3Eq6 ==
    Classified =>
        /\ ret.eq3 \in 0..2 /\ ret.eq6 \in 0..1
        /\ ret.eq3 = 0 <=> VulnerableHigh[1] /\ VulnerableHigh[2]
        /\ ret.eq3 = 1 <=> /\ ~(VulnerableHigh[1] /\ VulnerableHigh[2])
                          /\ \E k \in 1..3 : VulnerableHigh[k]
        /\ ret.eq3 = 2 <=> \A k \in 1..3 : ~VulnerableHigh[k]
        /\ ret.eq6 = 0 <=> \E k \in 1..3 : RequirementHigh[k] /\ VulnerableHigh[k]

\* VC:H/VI:H/VA:L with CR:M/IR:L and AR absent: EQ3 = 0 and EQ6 = 1, as
\* the only High requirement (AR, by default) meets a Low impact
C23_Witness ==
    /\ Classified
    /\ cvss.vuln_confidentiality_impact = "High" /\ cvss.vuln_integrity_impact = "High"
    /\ cvss.vuln_availability_impact = "Low"
    /\ cvss.confidentiality_requirement = "Medium" /\ cvss.integrity_requirement = "Low"
    /\ cvss.availability_requirement = None
    /\ ret.eq3 = 0 /\ ret.eq6 = 1

(***************************************************************************)
(* C28.  Classification never yields EQ3 = 2 together with EQ6 = 0: the    *)
(* pair (EQ3, EQ6) is one of (0,0), (0,1), (1,0), (1,1), (2,1), so the     *)
(* final else branch of the next-lower computation of the paired dimension *)
(* is reached only at (2,1); and when no requirement slot is present,      *)
(* EQ6 = 0 exactly when EQ3 is 0 or 1.                                     *)
(***************************************************************************)
\* the branch of `let score_eq3eq6_next_lower = if .. else if .. else ..`
\* that a macro vector takes
Eq3Eq6Branch(macro_vector) ==
    IF macro_vector.eq3 \in {0, 1} /\ macro_vector.eq6 = 1 THEN "incr_eq3"
    ELSE IF macro_vector.eq3 = 1 /\ macro_vector.eq6 = 0 THEN "incr_eq6"
    ELSE IF macro_vector.eq3 = 0 /\ macro_vector.eq6 = 0 THEN "higher"
    ELSE "else"

NoRequirementSlot == \A i \in V4RequirementKeys : cvss[V4Keys[i][2]] = None

C28_Eq3Eq6Pairs ==
    Classified =>
        /\ ~(ret.eq3 = 2 /\ ret.eq6 = 0)
        /\ <<ret.eq3, ret.eq6>> \in {<<0, 0>>, <<0, 1>>, <<1, 0>>, <<1, 1>>, <<2, 1>>}
        /\ Eq3Eq6Branch(ret) = "else" <=> <<ret.eq3, ret.eq6>> = <<2, 1>>
        /\ NoRequirementSlot => (ret.eq6 = 0 <=> ret.eq3 \in {0, 1})

\* no requirement slot is present (all three count as High) and none of
\* VC, VI, VA is High: the pair is (2,1) and the else branch is taken
C28_Witness ==
    /\ Classified /\ NoRequirementSlot
    /\ \A k \in 1..3 : ~VulnerableHigh[k]
    /\ <<ret.eq3, ret.eq6>> = <<2, 1>>
    /\ Eq3Eq6Branch(ret) = "else"

(***************************************************************************)
(* C24.  A MacroVector without an entry in the lookup table gives no       *)
(* score: calculate_score_internal returns None for it, never a default    *)
(* or substitute number.  The v4.0 scoring functions return None only      *)
(* when a required base metric is absent or when the lookup or the parse   *)
(* of a boundary vector fails.                                             *)
(***************************************************************************)
\* the macro vectors with ordinals in range that the table has no entry for
MissingMacroVectors ==
    {mv \in [eq1 : 0..2, eq2 : 0..1, eq3 : 0..2, eq4 : 0..2, eq5 : 0..2, eq6 : 0..1] :
        ~lookup_global(mv).some}

\* the search for the boundary vector of the record's macro vector ends on
\* a vector that does not parse
BoundaryVectorFails(m) ==
    ~FindMaxVector(m, ComposedMaxVectors(MacroVectorOf(m)), 1,
                   [f \in MaxVectorFields |-> 0]).ok

\* m is the merged metrics of the record
MissingEntryIsNone(m) ==
    /\ ~V4BaseComplete => ret = NoneF
    /\ ret = NoneF =>
          \/ ~V4BaseComplete
          \/ ~lookup_global(MacroVectorOf(m)).some
          \/ BoundaryVectorFails(m)
    /\ (V4BaseComplete /\ ~lookup_global(MacroVectorOf(m)).some /\ ~NoEffectiveImpact)
          => ret = NoneF
    /\ V4BaseComplete =>
          \A mv \in MissingMacroVectors : ScoreOfMacroVector(mv, m) = NoneF

C24_MissingEntryIsNone ==
    (parser = "v4" /\ call \in V4ScoreCalls) =>
        MissingEntryIsNone(MergedMetrics(cvss, call = "calculate_score"))

\* a record classified at (EQ3, EQ6) = (2, 1) has a score; the macro vector
\* next to it at (2, 0) has no table entry and no score
C24_Witness ==
    /\ parser = "v4" /\ call \in V4ScoreCalls /\ V4BaseComplete
    /\ ret.some
    /\ MacroVectorOf(MergedMetrics(cvss, call = "calculate_score")).eq3 = 2
    /\ [MacroVectorOf(MergedMetrics(cvss, call = "calculate_score")) EXCEPT !.eq6 = 0]
          \in MissingMacroVectors
    /\ ScoreOfMacroVector(
           [MacroVectorOf(MergedMetrics(cvss, call = "calculate_score")) EXCEPT !.eq6 = 0],
           MergedMetrics(cvss, call = "calculate_score")) = NoneF

(***************************************************************************)
(* calculate_score_internal step by step: the locals after the             *)
(* classification, after the lookups, after the search for the boundary    *)
(* vector, and at the return.  `call` is the position in the function,     *)
(* `ret` holds the locals.                                                 *)
(***************************************************************************)
\* records whose classes have several boundary vectors, the first of which
\* does not fit
V4BoundaryProfiles ==
    [exploitation : {<<"Network", "Low", "None">>, <<"Network", "None", "Passive">>,
                     <<"Adjacent", "Low", "Passive">>},
     complexity : {<<"Low", "Present">>, <<"High", "None">>},
     impacts : {<<"High", "Low", "None", "Low", "Low", "Low">>,
                <<"Low", "Low", "High", "None", "High", "Low">>,
                <<"High", "High", "None", "None", "Safety", "Safety">>}]

V4BoundaryRecords ==
    {V4Record(b, {}, e, env) :
        b \in V4BoundaryProfiles, e \in {None, "Unreported"},
        env \in {V4NoEnvironment, V4SomeEnvironment}}

InitInterpolate ==
    /\ parser = "v4"
    /\ input = <<>>
    /\ pc = "done"
    /\ rest = <<>>
    /\ cvss \in V4Records \cup V4BoundaryRecords
    /\ result = Ok
    /\ call = "none"
    /\ ret = NoneF

\* the return of calculate_score_internal
Returned(locals, score) == [score |-> score] @@ locals

\* lines 239-296: the base metrics, the merge, the shortcut, the MacroVector
ScoreBeginWith(include_threat_metrics, m) ==
    IF \E f \in V4BaseFields : cvss[f] = None
    THEN /\ call' = "return"
         /\ ret' = Returned([include_threat_metrics |-> include_threat_metrics], NoneF)
    ELSE IF ZeroImpactShortcut(m)
    THEN /\ call' = "return"
         /\ ret' = Returned([include_threat_metrics |-> include_threat_metrics, m |-> m],
                            SomeF(FZero))
    ELSE /\ call' = "classified"
         /\ ret' = [include_threat_metrics |-> include_threat_metrics, m |-> m,
                    macro_vector |-> MacroVectorOf(m)]

ScoreBegin ==
    /\ parser = "v4" /\ pc = "done" /\ result = Ok
    /\ call = "none"
    /\ \E include_threat_metrics \in BOOLEAN :
          ScoreBeginWith(include_threat_metrics,
                         MergedMetrics(cvss, include_threat_metrics))
    /\ UNCHANGED <<parser, input, pc, rest, cvss, result>>

\* lines 298-328: the score of the macro vector and the next-lower scores
ScoreLookupOf(value) ==
    IF ~value.some
    THEN /\ call' = "return"
         /\ ret' = Returned(ret, NoneF)
    ELSE /\ call' = "looked_up"
         /\ ret' = [value |-> value.v,
                    score_eq1_next_lower |-> lookup_global(incr_eq1(ret.macro_vector)),
                    score_eq2_next_lower |-> lookup_global(incr_eq2(ret.macro_vector)),
                    score_eq3eq6_next_lower |-> ScoreEq3Eq6NextLower(ret.macro_vector),
                    score_eq4_next_lower |-> lookup_global(incr_eq4(ret.macro_vector)),
                    score_eq5_next_lower |-> lookup_global(incr_eq5(ret.macro_vector))]
                   @@ ret

ScoreLookup ==
    /\ call = "classified"
    /\ ScoreLookupOf(lookup_global(ret.macro_vector))
    /\ UNCHANGED <<parser, input, pc, rest, cvss, result>>

\* lines 330-410: the composed max vectors and the severity distances
ScoreDistancesOf(found) ==
    IF ~found.ok
    THEN /\ call' = "return"
         /\ ret' = Returned(ret, NoneF)
    ELSE /\ call' = "measured"
         /\ ret' = [max_vectors |-> ComposedMaxVectors(ret.macro_vector),
                    severity_distance |-> found.d] @@ ret

ScoreDistances ==
    /\ call = "looked_up"
    /\ ScoreDistancesOf(FindMaxVector(ret.m, ComposedMaxVectors(ret.macro_vector), 1,
                                       [f \in MaxVectorFields |-> 0]))
    /\ UNCHANGED <<parser, input, pc, rest, cvss, result>>

\* lines 412-423: current_severity_distance_eq*, by dimension
CurrentSeverityDistance(d) ==
    <<d.av + d.pr + d.ui,
      d.ac + d.at,
      d.vc + d.vi + d.va + d.cr + d.ir + d.ar,
      d.sc + d.si + d.sa>>

\* lines 436-441: max_severity_eq*, by dimension
MaxSeverityOf(macro_vector) ==
    <<MaxSeverityStep(Eq1(macro_vector.eq1)),
      MaxSeverityStep(Eq2(macro_vector.eq2)),
      MaxSeverityStep(Eq3Eq6(macro_vector.eq3, macro_vector.eq6)),
      MaxSeverityStep(Eq4(macro_vector.eq4))>>

\* lines 427-432: available_distance_eq*, by dimension
AvailableDistances(l) ==
    <<AvailableDistance(l.value, l.score_eq1_next_lower),
      AvailableDistance(l.value, l.score_eq2_next_lower),
      AvailableDistance(l.value, l.score_eq3eq6_next_lower),
      AvailableDistance(l.value, l.score_eq4_next_lower),
      AvailableDistance(l.value, l.score_eq5_next_lower)>>

\* lines 443-482: normalized_severity_eq*, by dimension
NormalizedSeverities(a, current, max) ==
    <<NormalizedSeverity(a[1], current[1], max[1]),
      NormalizedSeverity(a[2], current[2], max[2]),
      NormalizedSeverity(a[3], current[3], max[3]),
      NormalizedSeverity(a[4], current[4], max[4]),
      FZero>>

\* lines 484-497
ScoreMeanOf(a, n) ==
    /\ call' = "return"
    /\ ret' = Returned(
                  [available_distance |-> a,
                   normalized_severity |-> n,
                   n_existing_lower |-> ExistingLower(a[1], a[2], a[3], a[4], a[5]),
                   mean_distance |-> MeanDistance(ExistingLower(a[1], a[2], a[3], a[4], a[5]),
                                                  n[1], n[2], n[3], n[4], n[5])] @@ ret,
                  SomeF(FSub(ret.value,
                             MeanDistance(ExistingLower(a[1], a[2], a[3], a[4], a[5]),
                                          n[1], n[2], n[3], n[4], n[5]))))

ScoreMeanFrom(a) ==
    ScoreMeanOf(a, NormalizedSeverities(a, CurrentSeverityDistance(ret.severity_distance),
                                        MaxSeverityOf(ret.macro_vector)))

ScoreMean ==
    /\ call = "measured"
    /\ ScoreMeanFrom(AvailableDistances(ret))
    /\ UNCHANGED <<parser, input, pc, rest, cvss, result>>

NextInterpolate == ScoreBegin \/ ScoreLookup \/ ScoreDistances \/ ScoreMean

SpecInterpolate == InitInterpolate /\ [][NextInterpolate]_vars

\* the function has gone past the lookups: the next-lower scores are known
LookedUp == call \in {"looked_up", "measured"} \/ (call = "return" /\ "value" \in DOMAIN ret)

\* the function has returned from its last line
Interpolated == call = "return" /\ "mean_distance" \in DOMAIN ret

(***************************************************************************)
(* C25.  The next-lower score of a dimension is the table entry of the     *)
(* macro vector with one ordinal incremented: EQ1, EQ2, EQ4, EQ5 each by   *)
(* one; for the pair (EQ3, EQ6), EQ3 at (0,1) and (1,1), EQ6 at (1,0), at  *)
(* (0,0) the higher of the two single increments (the existing one if only *)
(* one exists), and none at (2,1).  A dimension whose incremented key has  *)
(* no table entry has no next-lower score, contributes no distance and is  *)
(* not counted in the mean.                                                *)
(***************************************************************************)
\* the table entry of the macro vector with the ordinals of `eq` one higher
Incremented(macro_vector, eq) ==
    lookup_global([k \in DOMAIN macro_vector |->
                      IF k \in eq THEN macro_vector[k] + 1 ELSE macro_vector[k]])

\* x is the higher of two table entries, the existing one if one is missing
HigherOf(x, left, right) ==
    /\ x \in {left, right}
    /\ left.some => x.some /\ ~FLess(x.v, left.v)
    /\ right.some => x.some /\ ~FLess(x.v, right.v)

\* the next-lower scores of the locals, by dimension
NextLowerScores ==
    <<ret.score_eq1_next_lower, ret.score_eq2_next_lower, ret.score_eq3eq6_next_lower,
      ret.score_eq4_next_lower, ret.score_eq5_next_lower>>

PairOf(macro_vector) == <<macro_vector.eq3, macro_vector.eq6>>

C25_NextLowerScores ==
    /\ LookedUp =>
          /\ ret.score_eq1_next_lower = Incremented(ret.macro_vector, {"eq1"})
          /\ ret.score_eq2_next_lower = Incremented(ret.macro_vector, {"eq2"})
          /\ ret.score_eq4_next_lower = Incremented(ret.macro_vector, {"eq4"})
          /\ ret.score_eq5_next_lower = Incremented(ret.macro_vector, {"eq5"})
          /\ PairOf(ret.macro_vector) \in {<<0, 1>>, <<1, 1>>} =>
                ret.score_eq3eq6_next_lower = Incremented(ret.macro_vector, {"eq3"})
          /\ PairOf(ret.macro_vector) = <<1, 0>> =>
                ret.score_eq3eq6_next_lower = Incremented(ret.macro_vector, {"eq6"})
          /\ PairOf(ret.macro_vector) = <<0, 0>> =>
                HigherOf(ret.score_eq3eq6_next_lower,
                         Incremented(ret.macro_vector, {"eq6"}),
                         Incremented(ret.macro_vector, {"eq3"}))
          /\ PairOf(ret.macro_vector) = <<2, 1>> => ret.score_eq3eq6_next_lower = NoneF
    /\ Interpolated =>
          /\ \A k \in 1..5 :
                ~NextLowerScores[k].some =>
                    /\ ~ret.available_distance[k].some
                    /\ ret.normalized_severity[k] = FZero
          /\ ret.n_existing_lower = Cardinality({k \in 1..5 : NextLowerScores[k].some})

\* at (0,0) the two single increments have different scores and the higher
\* one is the next-lower score
C25_Witness ==
    /\ LookedUp
    /\ PairOf(ret.macro_vector) = <<0, 0>>
    /\ Incremented(ret.macro_vector, {"eq6"}).some
    /\ Incremented(ret.macro_vector, {"eq3"}).some
    /\ Incremented(ret.macro_vector, {"eq6"}) # Incremented(ret.macro_vector, {"eq3"})
    /\ HigherOf(ret.score_eq3eq6_next_lower, Incremented(ret.macro_vector, {"eq6"}),
                Incremented(ret.macro_vector, {"eq3"}))

(***************************************************************************)
(* C26.  The severity distances come from exactly one boundary candidate.  *)
(* The candidates are enumerated in a fixed order (EQ1 outermost, then     *)
(* EQ2, EQ3/EQ6, EQ4, EQ5 innermost); a candidate that gives a negative    *)
(* distance for one of the fourteen metrics is discarded; the distances    *)
(* used are those of the first candidate with no negative distance, so no  *)
(* distance that enters the score is negative.                             *)
(***************************************************************************)
\* the boundary vectors of the five dimensions of a macro vector
BoundaryParts(macro_vector) ==
    <<max_composed(Eq1(macro_vector.eq1)),
      max_composed(Eq2(macro_vector.eq2)),
      max_composed(Eq3Eq6(macro_vector.eq3, macro_vector.eq6)),
      max_composed(Eq4(macro_vector.eq4)),
      max_composed(Eq5(macro_vector.eq5))>>

\* the choices of one boundary vector per dimension
BoundaryChoices(parts) ==
    {<<t1, t2, t3, t4, t5>> :
        t1 \in 1..Len(parts[1]), t2 \in 1..Len(parts[2]), t3 \in 1..Len(parts[3]),
        t4 \in 1..Len(parts[4]), t5 \in 1..Len(parts[5])}

\* the place of choice t when the choices are enumerated with the first
\* dimension outermost and the fifth innermost
PlaceOf(parts, t) ==
    ((((t[1] - 1) * Len(parts[2]) + (t[2] - 1)) * Len(parts[3]) + (t[3] - 1))
        * Len(parts[4]) + (t[4] - 1)) * Len(parts[5]) + t[5]

CandidateOf(parts, t) ==
    parts[1][t[1]] \o parts[2][t[2]] \o parts[3][t[3]] \o parts[4][t[4]] \o parts[5][t[5]]

\* the distances of the merged metrics from each candidate, in order
CandidateDistances ==
    [k \in 1..Len(ret.max_vectors) |->
        SeverityDistances(ret.m, parse_max_vector(ret.max_vectors[k]).v)]

NonNegative(d) == \A f \in MaxVectorFields : d[f] >= 0

\* d is the k-th of the distances ds, the first without a negative distance
FirstFitting(ds, k, d) ==
    /\ NonNegative(ds[k])
    /\ \A j \in 1..(k - 1) : ~NonNegative(ds[j])
    /\ d = ds[k]

\* the candidates are the choices in their order
EnumeratedInOrder(max_vectors, parts) ==
    /\ Len(max_vectors) = Cardinality(BoundaryChoices(parts))
    /\ \A t \in BoundaryChoices(parts) : max_vectors[PlaceOf(parts, t)] = CandidateOf(parts, t)

\* the search for the boundary vector is over
Measured == call = "measured" \/ Interpolated

NextLowerOf(l) ==
    <<l.score_eq1_next_lower, l.score_eq2_next_lower, l.score_eq3eq6_next_lower,
      l.score_eq4_next_lower, l.score_eq5_next_lower>>

\* the dimensions that have a next-lower score
Counted(l) == {k \in 1..5 : NextLowerOf(l)[k].some}

\* the sum of the five contributions, added in the order of the code
SumOf(n) == FAdd(FAdd(FAdd(FAdd(n[1], n[2]), n[3]), n[4]), n[5])

\* C27: the mean distance is the sum of the five normalized contributions
\* divided by the number of dimensions that have a next-lower score, and 0
\* when none has one; a dimension without next-lower score contributes 0 and
\* is not counted; EQ5 contributes 0 and is counted when it has a next-lower
\* score
C27_MeanDistance ==
    Interpolated =>
        /\ ret.n_existing_lower = Cardinality(Counted(ret))
        /\ ret.mean_distance =
              IF Counted(ret) = {} THEN FZero
              ELSE FDiv(SumOf(ret.normalized_severity), FOfInt(Cardinality(Counted(ret))))
        /\ \A k \in (1..5) \ Counted(ret) : ret.normalized_severity[k] = FZero
        /\ ret.normalized_severity[5] = FZero
        /\ ret.score = SomeF(FSub(ret.value, ret.mean_distance))

\* EQ5 has a next-lower score and is counted, another dimension has none, and
\* the mean distance is not 0
C27_Witness ==
    /\ Interpolated
    /\ 5 \in Counted(ret)
    /\ Counted(ret) # 1..5
    /\ ret.mean_distance # FZero

(***************************************************************************)
(* The proportion of the maximum step                                      *)
(***************************************************************************)
\* x is in [0, 1]
InUnitInterval(x) == ~FLess(x, FZero) /\ ~FLess(FOfInt(1), x)

\* the summed distance current of a dimension is within its maximum step max
WithinMaxStep(current, max) ==
    /\ current >= 0
    /\ ~FLess(max, FOfInt(current))
    /\ max # FZero
    /\ InUnitInterval(FDiv(FOfInt(current), max))

\* the dimensions with a severity distance that have a next-lower score
Measurable(l) == Counted(l) \cap (1..4)

\* C29: for every dimension with a next-lower score the summed severity
\* distance, in the units of level(), is between 0 and the maximum step
\* max_severity * 0.1, the proportion of the two is in [0, 1], the divisor is
\* not 0, and the score is between the lowest next-lower score and the score
\* of the macro vector
C29_DistanceWithinMaxStep ==
    Interpolated =>
        /\ \A k \in Measurable(ret) :
              WithinMaxStep(CurrentSeverityDistance(ret.severity_distance)[k],
                            MaxSeverityOf(ret.macro_vector)[k])
        /\ ~FLess(ret.value, ret.score.v)
        /\ Counted(ret) # {} =>
              \E k \in Counted(ret) : ~FLess(ret.score.v, NextLowerOf(ret)[k].v)

(***************************************************************************)
(* The value X in v4.0                                                     *)
(***************************************************************************)
\* the keys of Exploit Maturity and of the supplemental metrics
V4NotDefinedKeys ==
    {<<"E">>, <<"S">>, <<"A","U">>, <<"R">>, <<"V">>, <<"R","E">>, <<"U">>}

\* the base keys, the modified keys and the requirement keys
V4NoNotDefinedKeys ==
    {<<"A","V">>, <<"A","C">>, <<"A","T">>, <<"P","R">>, <<"U","I">>,
     <<"V","C">>, <<"V","I">>, <<"V","A">>, <<"S","C">>, <<"S","I">>, <<"S","A">>,
     <<"M","A","V">>, <<"M","A","C">>, <<"M","A","T">>, <<"M","P","R">>, <<"M","U","I">>,
     <<"M","V","C">>, <<"M","V","I">>, <<"M","V","A">>,
     <<"M","S","C">>, <<"M","S","I">>, <<"M","S","A">>,
     <<"C","R">>, <<"I","R">>, <<"A","R">>}

\* the v4.0 parser has finished on the sole segment KEY:X, in some letter case
SoleSegmentX ==
    /\ Done /\ parser = "v4" /\ PrefixAccepted
    /\ Len(Segments) = 1 /\ Colons(Segments[1]) = 1
    /\ ValueOf(Segments[1]) = <<"X">>
    /\ Recognised(parser, KeyOf(Segments[1]))

\* C30: the v4.0 parser accepts X for E and the supplemental keys only; for
\* every base, modified and requirement key X fails with InvalidMetricValue,
\* so no parsed record holds NotDefined in the slot of such a key
C30_NotDefinedOnlyThreatAndSupplemental ==
    /\ SoleSegmentX =>
          /\ KeyOf(Segments[1]) \in V4NotDefinedKeys \cup V4NoNotDefinedKeys
          /\ KeyOf(Segments[1]) \in V4NotDefinedKeys =>
                /\ result = Ok
                /\ cvss[ArmOf(parser, KeyOf(Segments[1]))[2]] = "NotDefined"
          /\ KeyOf(Segments[1]) \in V4NoNotDefinedKeys =>
                result = InvalidMetricValue(KeyOf(Segments[1]), <<"X">>)
    /\ (Done /\ parser = "v4" /\ result = Ok) =>
          \A key \in V4NoNotDefinedKeys : cvss[ArmOf(parser, key)[2]] # "NotDefined"

\* the sole segment cr:x has been rejected
C30_Witness ==
    /\ SoleSegmentX
    /\ Segments[1] = <<"c","r",":","x">>
    /\ result = InvalidMetricValue(<<"C","R">>, <<"X">>)

====
